---- MODULE Spec2Model ----
(***************************************************************************)
(* RolLang runtime loader (LibRolLang/RuntimeLoader.h).                    *)
(*                                                                         *)
(* The loader owns the loaded type/function tables, the code cache, the    *)
(* id counters and the loading queues.  One action per public API call;    *)
(* an action runs the whole call (lookup, LoadXxxNoLock, the scheduler     *)
(* loop, the final checks, publication, the trailing ClearLoadingLists).   *)
(*                                                                         *)
(* Objects are identified by their id: every RuntimeType takes a fresh     *)
(* _nextTypeId when it is created, so the id is the handle (the pointer)   *)
(* and the heap is a sequence indexed by id.  Vectors are sequences;       *)
(* At(v, i) reads the zero-based index i.  Null is 0.                      *)
(***************************************************************************)
EXTENDS Integers, Sequences, FiniteSets, TLC

VARIABLES
    assemblies,                 \* _assemblies: the bundle given to the constructor
    loadedTypes,                \* _loadedTypes (handles, Null for an empty slot)
    loadedFunctions,            \* _loadedFunctions
    codeStorage,                \* _codeStorage.Data
    types,                      \* heap of RuntimeType objects, by TypeId
    funcs,                      \* heap of RuntimeFunction objects, by FunctionId
    loadingTypes,               \* _loadingTypes
    loadingRefTypes,            \* _loadingRefTypes
    postLoadingTypes,           \* _postLoadingTypes
    loadingFunctions,           \* _loadingFunctions
    finishedLoadingTypes,       \* _finishedLoadingTypes
    finishedLoadingFunctions,   \* _finishedLoadingFunctions
    nextTypeId,                 \* _nextTypeId
    nextFunctionId,             \* _nextFunctionId
    lastCall,                   \* the last API call: operation, arguments, result, err
    held,                       \* handles returned to callers by successful calls
    crashed,                    \* the process was killed by a signal (trap, abort)
    log,                        \* hook invocations and publications of the last call
    loaderLock,                 \* _loaderLock: the thread that holds it (Null: free)
    threads,                    \* the calls of the concurrent callers, by thread
    resolution,                 \* the last import resolution and its result
    declCall,                   \* the last call on a generic declaration and its result
    solver                      \* the constraint check in progress (ConstraintCheckingContext)

vars == <<assemblies, loadedTypes, loadedFunctions, codeStorage, types, funcs,
          loadingTypes, loadingRefTypes, postLoadingTypes, loadingFunctions,
          finishedLoadingTypes, finishedLoadingFunctions, nextTypeId,
          nextFunctionId, lastCall, held, crashed, log, loaderLock, threads,
          resolution, declCall, solver>>

----------------------------------------------------------------------------
(* Bounds of the exploration *)

\* API calls are issued while fewer than this many ids (type ids and function
\* ids together) have been handed out
MaxObjects == 3

----------------------------------------------------------------------------
(* Program constants *)

Null == 0

\* sizeof(void*)
PtrSize == 8

At(v, i) == v[i + 1]

Ref(t, i) == [Type |-> t, Index |-> i]

NoFunctions == <<Ref("REF_EMPTY", 0)>>

\* struct Type (template)
TypeT(gc, params, tl, fl, fields, init, fin) ==
    [GCMode |-> gc, Parameters |-> params, Types |-> tl, Functions |-> fl,
     Fields |-> fields, Initializer |-> init, Finalizer |-> fin]

\* struct Function (template)
FuncT(params, tl, fl, ret, ps, code) ==
    [Parameters |-> params, Types |-> tl, Functions |-> fl,
     ReturnValue |-> ret, Params |-> ps, HasCode |-> code]

Export(n, id) == [ExportName |-> n, InternalId |-> id]

Import(a, n, g) == [AssemblyName |-> a, ImportName |-> n, GenericParameters |-> g]

\* GenericParameters of an import that states no arity
SIZE_MAX == -1

Asm(name, ts, fs, it, imf, et, ef, nt) ==
    [AssemblyName |-> name, Types |-> ts, Functions |-> fs,
     ImportTypes |-> it, ImportFunctions |-> imf,
     ExportTypes |-> et, ExportFunctions |-> ef, NativeTypes |-> nt]

----------------------------------------------------------------------------
(* The assembly bundles the loader is constructed over.  Each bundle is a   *)
(* list of assemblies; Init draws one.                                      *)

ValueLeaf == TypeT("TSM_VALUE", 0, <<>>, NoFunctions, <<>>, 0, 0)

\* M: I32 and I8 (native exports), Pair<T,U>, Obj (reference, no fields),
\*    Mixed { I8; Obj; I8 }
LayoutBundle ==
    << Asm("M",
        << ValueLeaf,
           ValueLeaf,
           TypeT("TSM_VALUE", 2, <<Ref("REF_ARGUMENT", 0), Ref("REF_ARGUMENT", 1)>>,
                 NoFunctions, <<0, 1>>, 0, 0),
           TypeT("TSM_REF", 0, <<>>, NoFunctions, <<>>, 0, 0),
           TypeT("TSM_VALUE", 0,
                 <<Ref("REF_ASSEMBLY", 1), Ref("REF_EMPTY", 0),
                   Ref("REF_ASSEMBLY", 3), Ref("REF_EMPTY", 0)>>,
                 NoFunctions, <<0, 2, 0>>, 0, 0) >>,
        <<>>, <<>>, <<>>, <<>>, <<>>,
        <<Export("I32", 0), Export("I8", 1)>>) >>

SelfField(gc, id) ==
    TypeT(gc, 0, <<Ref("REF_ASSEMBLY", id), Ref("REF_EMPTY", 0)>>, NoFunctions, <<0>>, 0, 0)

\* M: 0 Node (reference, field Node); 1 RA / 2 RB (references to each other);
\*    3 VCycle (value, field VCycle); 4 VA / 5 VB (values holding each other);
\*    6 Wrap<T> { T }; 7 GCyc { Wrap<GCyc> }; 8 RV (reference) { VR }; 9 VR (value) { RV }
CyclesBundle ==
    << Asm("M",
        << SelfField("TSM_REF", 0),
           SelfField("TSM_REF", 2),
           SelfField("TSM_REF", 1),
           SelfField("TSM_VALUE", 3),
           SelfField("TSM_VALUE", 5),
           SelfField("TSM_VALUE", 4),
           TypeT("TSM_VALUE", 1, <<Ref("REF_ARGUMENT", 0)>>, NoFunctions, <<0>>, 0, 0),
           TypeT("TSM_VALUE", 0,
                 <<Ref("REF_ASSEMBLY", 6), Ref("REF_ASSEMBLY", 7), Ref("REF_EMPTY", 0)>>,
                 NoFunctions, <<0>>, 0, 0),
           SelfField("TSM_REF", 9),
           SelfField("TSM_VALUE", 8) >>,
        <<>>, <<>>, <<>>, <<>>, <<>>, <<>>) >>

\* M types: 0 Glob (global, initializer InitOk); 1 BadGlob (global, initializer
\*    InitBad, which takes a parameter); 2 Res (reference, finalizer Fin); 3 Leaf
\* M functions: 0 InitOk (); 1 InitBad (Leaf); 2 Fin (Res); 3 Rec (calls itself);
\*    4 Gen<T> (T)
FuncsBundle ==
    << Asm("M",
        << TypeT("TSM_GLOBAL", 0, <<>>,
                 <<Ref("REF_ASSEMBLY", 0), Ref("REF_EMPTY", 0)>>, <<>>, 0, 1),
           TypeT("TSM_GLOBAL", 0, <<>>,
                 <<Ref("REF_ASSEMBLY", 1), Ref("REF_EMPTY", 0)>>, <<>>, 0, 1),
           TypeT("TSM_REF", 0, <<>>,
                 <<Ref("REF_EMPTY", 0), Ref("REF_ASSEMBLY", 2), Ref("REF_EMPTY", 0)>>,
                 <<>>, 0, 1),
           ValueLeaf >>,
        << FuncT(0, <<Ref("REF_EMPTY", 0)>>, <<>>, 0, <<>>, TRUE),
           FuncT(0, <<Ref("REF_EMPTY", 0), Ref("REF_ASSEMBLY", 3), Ref("REF_EMPTY", 0)>>,
                 <<>>, 0, <<1>>, TRUE),
           FuncT(0, <<Ref("REF_EMPTY", 0), Ref("REF_ASSEMBLY", 2), Ref("REF_EMPTY", 0)>>,
                 <<>>, 0, <<1>>, TRUE),
           FuncT(0, <<Ref("REF_EMPTY", 0)>>,
                 <<Ref("REF_ASSEMBLY", 3), Ref("REF_EMPTY", 0)>>, 0, <<>>, TRUE),
           FuncT(1, <<Ref("REF_ARGUMENT", 0)>>, <<>>, 0, <<0>>, FALSE) >>,
        <<>>, <<>>, <<>>, <<>>, <<>>) >>

\* Core: 0 Pointer<T> (exported as Core.Pointer)
\* M types: 0 I32 (native export); 1 BadGlob (global, initializer InitBad)
\* M functions: 0 InitBad (I32); 1 UsePtr, which references BadGlob and then
\*    the import Core.Pointer<I32>
PointerBundle ==
    << Asm("Core",
        << TypeT("TSM_VALUE", 1, <<>>, NoFunctions, <<>>, 0, 0) >>,
        <<>>, <<>>, <<>>, <<Export("Core.Pointer", 0)>>, <<>>, <<>>),
       Asm("M",
        << ValueLeaf,
           TypeT("TSM_GLOBAL", 0, <<>>,
                 <<Ref("REF_ASSEMBLY", 0), Ref("REF_EMPTY", 0)>>, <<>>, 0, 1) >>,
        << FuncT(0, <<Ref("REF_EMPTY", 0), Ref("REF_ASSEMBLY", 0), Ref("REF_EMPTY", 0)>>,
                 <<>>, 0, <<1>>, TRUE),
           FuncT(0, <<Ref("REF_EMPTY", 0), Ref("REF_ASSEMBLY", 1), Ref("REF_EMPTY", 0),
                      Ref("REF_IMPORT", 0), Ref("REF_ASSEMBLY", 0), Ref("REF_EMPTY", 0)>>,
                 <<>>, 0, <<>>, TRUE) >>,
        <<Import("Core", "Core.Pointer", 1)>>, <<>>, <<>>, <<>>,
        <<Export("I32", 0)>>) >>

\* M types: 0 ValInit (value, initializer InitOk); 1 GlobFin (global, finalizer
\*    FinGlob); 2 GlobRet (global, initializer InitRet, which returns a Leaf);
\*    3 ResRet (reference, finalizer FinRet, which returns a Leaf); 4 ResNoParam
\*    (reference, finalizer InitOk, which takes nothing); 5 ResOther (reference,
\*    finalizer FinOther, which takes a Leaf); 6 Leaf (native export);
\*    7 ResInit (reference, initializer InitOk)
\* M functions: 0 InitOk (); 1 InitRet () -> Leaf; 2 FinRet (ResRet) -> Leaf;
\*    3 FinOther (Leaf); 4 FinGlob (GlobFin)
WiringBundle ==
    << Asm("M",
        << TypeT("TSM_VALUE", 0, <<>>,
                 <<Ref("REF_ASSEMBLY", 0), Ref("REF_EMPTY", 0)>>, <<>>, 0, 1),
           TypeT("TSM_GLOBAL", 0, <<>>,
                 <<Ref("REF_EMPTY", 0), Ref("REF_ASSEMBLY", 4), Ref("REF_EMPTY", 0)>>,
                 <<>>, 0, 1),
           TypeT("TSM_GLOBAL", 0, <<>>,
                 <<Ref("REF_ASSEMBLY", 1), Ref("REF_EMPTY", 0)>>, <<>>, 0, 1),
           TypeT("TSM_REF", 0, <<>>,
                 <<Ref("REF_EMPTY", 0), Ref("REF_ASSEMBLY", 2), Ref("REF_EMPTY", 0)>>,
                 <<>>, 0, 1),
           TypeT("TSM_REF", 0, <<>>,
                 <<Ref("REF_EMPTY", 0), Ref("REF_ASSEMBLY", 0), Ref("REF_EMPTY", 0)>>,
                 <<>>, 0, 1),
           TypeT("TSM_REF", 0, <<>>,
                 <<Ref("REF_EMPTY", 0), Ref("REF_ASSEMBLY", 3), Ref("REF_EMPTY", 0)>>,
                 <<>>, 0, 1),
           ValueLeaf,
           TypeT("TSM_REF", 0, <<>>,
                 <<Ref("REF_ASSEMBLY", 0), Ref("REF_EMPTY", 0)>>, <<>>, 0, 1) >>,
        << FuncT(0, <<Ref("REF_EMPTY", 0)>>, <<>>, 0, <<>>, TRUE),
           FuncT(0, <<Ref("REF_EMPTY", 0), Ref("REF_ASSEMBLY", 6), Ref("REF_EMPTY", 0)>>,
                 <<>>, 1, <<>>, TRUE),
           FuncT(0, <<Ref("REF_EMPTY", 0), Ref("REF_ASSEMBLY", 3), Ref("REF_EMPTY", 0),
                      Ref("REF_ASSEMBLY", 6), Ref("REF_EMPTY", 0)>>,
                 <<>>, 3, <<1>>, TRUE),
           FuncT(0, <<Ref("REF_EMPTY", 0), Ref("REF_ASSEMBLY", 6), Ref("REF_EMPTY", 0)>>,
                 <<>>, 0, <<1>>, TRUE),
           FuncT(0, <<Ref("REF_EMPTY", 0), Ref("REF_ASSEMBLY", 1), Ref("REF_EMPTY", 0)>>,
                 <<>>, 0, <<1>>, TRUE) >>,
        <<>>, <<>>, <<>>, <<>>,
        <<Export("Leaf", 6)>>) >>

\* M types: 0 I32; 1 Gen<T>; 2 Obj (reference); 3 WithInit (initializer F);
\*    4 WithFin (finalizer F); 5 BadFn (its finalizer index is outside its
\*    function reference list)
\* M functions: 0 F ()
\* M native exports: each of the types, and Lost, whose id is outside Types
NativeBundle ==
    << Asm("M",
        << ValueLeaf,
           TypeT("TSM_VALUE", 1, <<>>, NoFunctions, <<>>, 0, 0),
           TypeT("TSM_REF", 0, <<>>, NoFunctions, <<>>, 0, 0),
           TypeT("TSM_VALUE", 0, <<>>,
                 <<Ref("REF_ASSEMBLY", 0), Ref("REF_EMPTY", 0)>>, <<>>, 0, 1),
           TypeT("TSM_VALUE", 0, <<>>,
                 <<Ref("REF_EMPTY", 0), Ref("REF_ASSEMBLY", 0), Ref("REF_EMPTY", 0)>>,
                 <<>>, 0, 1),
           TypeT("TSM_VALUE", 0, <<>>, NoFunctions, <<>>, 0, 3) >>,
        << FuncT(0, <<Ref("REF_EMPTY", 0)>>, <<>>, 0, <<>>, TRUE) >>,
        <<>>, <<>>, <<>>, <<>>,
        <<Export("I32", 0), Export("Gen", 1), Export("Obj", 2), Export("WithInit", 3),
          Export("WithFin", 4), Export("BadFn", 5), Export("Lost", 9)>>) >>

\* M types: 0 Node (reference, field Node); 1 I32 (native export)
\* M functions: 0 F ()
SharedBundle ==
    << Asm("M",
        << SelfField("TSM_REF", 0), ValueLeaf >>,
        << FuncT(0, <<Ref("REF_EMPTY", 0)>>, <<>>, 0, <<>>, TRUE) >>,
        <<>>, <<>>, <<>>, <<>>,
        <<Export("I32", 1)>>) >>

\* M types: 0 Res (reference, finalizer Fin); 1 Holder (value) { Res }
\* M functions: 0 F (Res), which references G; 1 G (); 2 Fin (Res)
QueuesBundle ==
    << Asm("M",
        << TypeT("TSM_REF", 0, <<>>,
                 <<Ref("REF_EMPTY", 0), Ref("REF_ASSEMBLY", 2), Ref("REF_EMPTY", 0)>>,
                 <<>>, 0, 1),
           TypeT("TSM_VALUE", 0, <<Ref("REF_ASSEMBLY", 0), Ref("REF_EMPTY", 0)>>,
                 NoFunctions, <<0>>, 0, 0) >>,
        << FuncT(0, <<Ref("REF_EMPTY", 0), Ref("REF_ASSEMBLY", 0), Ref("REF_EMPTY", 0)>>,
                 <<Ref("REF_ASSEMBLY", 1), Ref("REF_EMPTY", 0)>>, 0, <<1>>, TRUE),
           FuncT(0, <<Ref("REF_EMPTY", 0)>>, <<>>, 0, <<>>, TRUE),
           FuncT(0, <<Ref("REF_EMPTY", 0), Ref("REF_ASSEMBLY", 0), Ref("REF_EMPTY", 0)>>,
                 <<>>, 0, <<1>>, TRUE) >>,
        <<>>, <<>>, <<>>, <<>>, <<>>) >>

\* M types: 0 Grow<T> (reference) { Grow<Wrap<T>> }; 1 Wrap<T> (reference);
\*    2 Leaf
\* M functions: 0 Again<T>, which references Again<Wrap<T>>
GrowBundle ==
    << Asm("M",
        << TypeT("TSM_REF", 1,
                 <<Ref("REF_ASSEMBLY", 0), Ref("REF_CLONE", 3), Ref("REF_EMPTY", 0),
                   Ref("REF_ASSEMBLY", 1), Ref("REF_ARGUMENT", 0), Ref("REF_EMPTY", 0)>>,
                 NoFunctions, <<0>>, 0, 0),
           TypeT("TSM_REF", 1, <<>>, NoFunctions, <<>>, 0, 0),
           ValueLeaf >>,
        << FuncT(1, <<Ref("REF_EMPTY", 0), Ref("REF_ASSEMBLY", 1), Ref("REF_ARGUMENT", 0),
                      Ref("REF_EMPTY", 0)>>,
                 <<Ref("REF_ASSEMBLY", 0), Ref("REF_CLONETYPE", 1), Ref("REF_EMPTY", 0)>>,
                 0, <<>>, TRUE) >>,
        <<>>, <<>>, <<>>, <<>>, <<>>) >>

\* M types: 0 Leaf (value); 1 Glob (global, initializer Gen<Leaf>); 2 Obj
\*    (reference, no fields)
\* M functions: 0 Gen<T> (), with code; 1 Plain (), with code; 2 NoCode (),
\*    without code; 3 Bad, with code, references a type that does not exist
CodeBundle ==
    << Asm("M",
        << ValueLeaf,
           TypeT("TSM_GLOBAL", 0, <<Ref("REF_ASSEMBLY", 0), Ref("REF_EMPTY", 0)>>,
                 <<Ref("REF_ASSEMBLY", 0), Ref("REF_CLONETYPE", 0), Ref("REF_EMPTY", 0)>>,
                 <<>>, 0, 2),
           TypeT("TSM_REF", 0, <<>>, NoFunctions, <<>>, 0, 0) >>,
        << FuncT(1, <<Ref("REF_EMPTY", 0)>>, <<>>, 0, <<>>, TRUE),
           FuncT(0, <<Ref("REF_EMPTY", 0)>>, <<>>, 0, <<>>, TRUE),
           FuncT(0, <<Ref("REF_EMPTY", 0)>>, <<>>, 0, <<>>, FALSE),
           FuncT(0, <<Ref("REF_EMPTY", 0), Ref("REF_ASSEMBLY", 9), Ref("REF_EMPTY", 0)>>,
                 <<>>, 0, <<>>, TRUE) >>,
        <<>>, <<>>, <<>>, <<>>, <<>>) >>

\* M types: 0 Leaf (value)
\* M functions: 0 RetPast, whose ReturnValue is index 1 of a type RefList of
\*    size 1; 1 ParamPast, whose parameter is index 3 of a type RefList of size
\*    3; 2 Fine (Leaf)
IndicesBundle ==
    << Asm("M",
        << ValueLeaf >>,
        << FuncT(0, <<Ref("REF_EMPTY", 0)>>, <<>>, 1, <<>>, TRUE),
           FuncT(0, <<Ref("REF_EMPTY", 0), Ref("REF_ASSEMBLY", 0), Ref("REF_EMPTY", 0)>>,
                 <<>>, 0, <<3>>, TRUE),
           FuncT(0, <<Ref("REF_EMPTY", 0), Ref("REF_ASSEMBLY", 0), Ref("REF_EMPTY", 0)>>,
                 <<>>, 0, <<1>>, TRUE) >>,
        <<>>, <<>>, <<>>, <<>>, <<>>) >>

Bundles == {"Layout", "Cycles", "Funcs", "Pointer"}

\* AssemblyList: the assemblies of a bundle
AssemblyList(b) ==
    CASE b = "Layout" -> LayoutBundle
      [] b = "Cycles" -> CyclesBundle
      [] b = "Funcs" -> FuncsBundle
      [] b = "Pointer" -> PointerBundle
      [] b = "Wiring" -> WiringBundle
      [] b = "Native" -> NativeBundle
      [] b = "Shared" -> SharedBundle
      [] b = "Queues" -> QueuesBundle
      [] b = "Grow" -> GrowBundle
      [] b = "Code" -> CodeBundle
      [] b = "Indices" -> IndicesBundle

----------------------------------------------------------------------------
(* Runtime objects *)

LoadingArgs(a, id, as) == [Assembly |-> a, Id |-> id, Arguments |-> as]

NoArgs == LoadingArgs("", 0, <<>>)

\* make_unique<RuntimeType>(): a zeroed object
NewType(args, id, storage) ==
    [Args |-> args, TypeId |-> id, Storage |-> storage, Size |-> 0, Alignment |-> 0,
     Fields |-> <<>>, Initializer |-> Null, Finalizer |-> Null,
     StaticPointer |-> Null, StaticBuffer |-> Null, PointerType |-> Null,
     Freed |-> FALSE]

\* make_unique<RuntimeFunction>()
NewFunction(args, id, code) ==
    [Args |-> args, FunctionId |-> id, Code |-> code, ReferencedType |-> <<>>,
     ReferencedFunction |-> <<>>, ReturnValue |-> Null, Parameters |-> <<>>,
     Freed |-> FALSE]

\* what is left of an object once its unique_ptr is destroyed
FreedType == [NewType(NoArgs, 0, "") EXCEPT !.Freed = TRUE]

FreedFunction == [NewFunction(NoArgs, 0, Null) EXCEPT !.Freed = TRUE]

----------------------------------------------------------------------------
(* Results of the loader's internal functions: the loader state after the   *)
(* call, the returned value, and the exception in flight ("" for none).     *)
(* A signal (a trap or an abort) travels the same way and is never caught.  *)

Ok(s, r) == [s |-> s, r |-> r, e |-> ""]

Throw(s, msg) == [s |-> s, r |-> Null, e |-> msg]

Signals == {"SIGFPE", "SIGABRT", "SIGSEGV"}

\* a scan from the back of the vector: the last match instead of the first
FindByArgs_LastMatch(heap, v, args) ==
    LET hits == {i \in 1..Len(v) : v[i] # Null /\ heap[v[i]].Args = args}
    IN IF hits = {} THEN Null
       ELSE v[CHOOSE i \in hits : \A j \in hits : i >= j]

\* the first handle of vector v whose object has Args = args (Null: none);
\* empty slots are skipped
FindByArgs(heap, v, args) ==
    LET hits == {i \in 1..Len(v) : v[i] # Null /\ heap[v[i]].Args = args}
    IN IF hits = {} THEN Null
       ELSE v[CHOOSE i \in hits : \A j \in hits : i <= j]

FindAssemblyNoThrow(al, name) ==
    LET hits == {i \in 1..Len(al) : al[i].AssemblyName = name}
    IN IF hits = {} THEN Null ELSE CHOOSE i \in hits : \A j \in hits : i <= j

\* FindTypeTemplate: r is the template
FindTypeTemplate(s, assembly, id) ==
    LET a == FindAssemblyNoThrow(s.asm, assembly)
    IN IF a = Null THEN Throw(s, "Referenced assembly not found")
       ELSE IF id >= Len(s.asm[a].Types) THEN Throw(s, "Invalid type reference")
       ELSE Ok(s, At(s.asm[a].Types, id))

FindFunctionTemplate(s, assembly, id) ==
    LET a == FindAssemblyNoThrow(s.asm, assembly)
    IN IF a = Null THEN Throw(s, "Referenced assembly not found")
       ELSE IF id >= Len(s.asm[a].Functions) THEN Throw(s, "Invalid function reference")
       ELSE Ok(s, At(s.asm[a].Functions, id))

\* CheckGenericArguments: the error message, "" when the arguments fit
CheckGenericArguments(g, args) ==
    IF g.Parameters # Len(args.Arguments) THEN "Invalid generic arguments"
    ELSE IF \E i \in 1..Len(args.Arguments) : args.Arguments[i] = Null
         THEN "Invalid generic arguments"
    ELSE ""

\* the first export of list with the given name (Null: none)
FindExport(list, name) ==
    LET hits == {i \in 1..Len(list) : list[i].ExportName = name}
    IN IF hits = {} THEN Null ELSE CHOOSE i \in hits : \A j \in hits : i <= j

\* FindPointerTypeId, run by the constructor
PointerTypeId(al) ==
    LET a == FindAssemblyNoThrow(al, "Core")
        e == IF a = Null THEN Null ELSE FindExport(al[a].ExportTypes, "Core.Pointer")
    IN IF a = Null \/ e = Null THEN SIZE_MAX
       ELSE LET id == al[a].ExportTypes[e].InternalId
            IN IF id >= Len(al[a].Types) THEN SIZE_MAX
               ELSE IF At(al[a].Types, id).Parameters # 1
                       \/ At(al[a].Types, id).GCMode # "TSM_VALUE" THEN SIZE_MAX
               ELSE id

\* GetCode without the lookup of _codeStorage
GetCode_NoLookup(s, a, id) ==
    LET f == FindFunctionTemplate(s, a, id)
    IN IF f.e # "" THEN f
       ELSE IF ~f.r.HasCode THEN Ok(s, Null)
       ELSE Ok([s EXCEPT !.codeStorage = Append(@, [AssemblyName |-> a, Id |-> id])],
               Len(s.codeStorage) + 1)

\* GetCode: r is the blob (its position in _codeStorage.Data), Null for a
\* function without code
GetCode(s, a, id) ==
    LET hits == {i \in 1..Len(s.codeStorage) :
                    s.codeStorage[i].AssemblyName = a /\ s.codeStorage[i].Id = id}
        f == FindFunctionTemplate(s, a, id)
    IN IF hits # {} THEN Ok(s, CHOOSE i \in hits : \A j \in hits : i <= j)
       ELSE IF f.e # "" THEN f
       ELSE IF ~f.r.HasCode THEN Ok(s, Null)
       ELSE Ok([s EXCEPT !.codeStorage = Append(@, [AssemblyName |-> a, Id |-> id])],
               Len(s.codeStorage) + 1)

\* AddLoadedType / AddLoadedFunction: put handle h at index id of vector v
AddLoaded(v, id, h) ==
    IF id < Len(v) THEN [v EXCEPT ![id + 1] = h]
    ELSE v \o [i \in 1..(id - Len(v)) |-> Null] \o <<h>>

----------------------------------------------------------------------------
(* The loading pipeline.  s is the loader: its tables, heap, queues and     *)
(* counters, the assembly list (s.asm), _pointerTypeId and the environment  *)
(* of the call (s.env): whether asserts are compiled in (debug), whether    *)
(* an integer division by zero traps (divTrap), and which of the virtual    *)
(* hooks of a subclass throws (hook).  s.met collects the points of the     *)
(* environment the call has come to: a failing assert ("debug"), a division *)
(* by zero ("divTrap"), a hook invocation (the hook's name).                *)

Met(s, what) == [s EXCEPT !.met = @ \cup {what}]

\* s.log: the calls of the hooks (OnTypeLoaded, OnFunctionLoaded) and of
\* AddLoadedType / AddLoadedFunction the request has made, in order
Logged(s, what, h) == [s EXCEPT !.log = Append(@, [call |-> what, object |-> h])]

\* Run(fn, a): the call of the loader's internal function fn with the argument
\* list a.  The functions of the pipeline call each other through Run.
RECURSIVE Run(_, _)
RECURSIVE LoadRefType(_, _, _, _)
RECURSIVE LoadTypeArgList(_, _, _, _, _)
RECURSIVE LoadFieldTypes(_, _, _, _, _)

\* a layout loop whose comparison of alignments is turned round: it keeps the
\* smaller of the field's alignment and the alignment so far
RECURSIVE LayoutFields_MinAlignment(_, _, _, _, _, _, _)
LayoutFields_MinAlignment(heap, fields, i, offset, totalAlignment, acc, env) ==
    IF i > Len(fields)
    THEN [Fields |-> acc, Size |-> IF offset = 0 THEN 1 ELSE offset,
          Alignment |-> totalAlignment, e |-> "", div0 |-> FALSE]
    ELSE LET ftype == heap[fields[i]]
             len == IF ftype.Storage = "TSM_REF" THEN PtrSize ELSE ftype.Size
             alignment == IF ftype.Storage = "TSM_REF" THEN PtrSize ELSE ftype.Alignment
             off == IF alignment = 0 THEN 0
                    ELSE ((offset + alignment - 1) \div alignment) * alignment
             total == IF alignment < totalAlignment THEN alignment ELSE totalAlignment
         IN IF ftype.Storage \notin {"TSM_REF", "TSM_VALUE"}
            THEN [Fields |-> acc, Size |-> 0, Alignment |-> 0,
                  e |-> "Invalid field type", div0 |-> FALSE]
            ELSE IF alignment = 0 /\ env.divTrap
            THEN [Fields |-> acc, Size |-> 0, Alignment |-> 0, e |-> "SIGFPE",
                  div0 |-> TRUE]
            ELSE LET rest == LayoutFields_MinAlignment(heap, fields, i + 1, off + len,
                                 total, Append(acc, [Type |-> fields[i], Offset |-> off,
                                                     Length |-> len]), env)
                 IN [rest EXCEPT !.div0 = @ \/ alignment = 0]

\* the layout loop of LoadFields over the resolved field types:
\* [Fields, Size, Alignment, e, div0], div0 telling whether it divided by zero
RECURSIVE LayoutFields(_, _, _, _, _, _, _)
LayoutFields(heap, fields, i, offset, totalAlignment, acc, env) ==
    IF i > Len(fields)
    THEN [Fields |-> acc, Size |-> IF offset = 0 THEN 1 ELSE offset,
          Alignment |-> totalAlignment, e |-> "", div0 |-> FALSE]
    ELSE LET ftype == heap[fields[i]]
             len == IF ftype.Storage = "TSM_REF" THEN PtrSize ELSE ftype.Size
             alignment == IF ftype.Storage = "TSM_REF" THEN PtrSize ELSE ftype.Alignment
             \* (offset + alignment - 1) / alignment * alignment; a division by
             \* zero traps or, where the divide instruction does not trap, gives 0
             off == IF alignment = 0 THEN 0
                    ELSE ((offset + alignment - 1) \div alignment) * alignment
             total == IF alignment > totalAlignment THEN alignment ELSE totalAlignment
         IN IF ftype.Storage \notin {"TSM_REF", "TSM_VALUE"}
            THEN [Fields |-> acc, Size |-> 0, Alignment |-> 0,
                  e |-> "Invalid field type", div0 |-> FALSE]
            ELSE IF alignment = 0 /\ env.divTrap
            THEN [Fields |-> acc, Size |-> 0, Alignment |-> 0, e |-> "SIGFPE",
                  div0 |-> TRUE]
            ELSE LET rest == LayoutFields(heap, fields, i + 1, off + len, total,
                                 Append(acc, [Type |-> fields[i], Offset |-> off,
                                              Length |-> len]), env)
                 IN [rest EXCEPT !.div0 = @ \/ alignment = 0]

LoadRefType(s, args, g, typeId) ==
    IF typeId >= Len(g.Types) THEN Throw(s, "Invalid type reference")
    ELSE LET type == At(g.Types, typeId)
         IN CASE type.Type = "REF_EMPTY" -> Ok(s, Null)
              [] type.Type = "REF_CLONE" ->
                    IF type.Index >= Len(g.Types) THEN Throw(s, "Invalid type reference")
                    ELSE LoadRefType(s, args, g, type.Index)
              [] type.Type = "REF_ASSEMBLY" ->
                    Run("LoadDependentType",
                        <<s, args.Assembly, type.Index, args, g, typeId, SIZE_MAX>>)
              [] type.Type = "REF_IMPORT" ->
                    Run("LoadDependentTypeImport",
                        <<s, args.Assembly, type.Index, args, g, typeId>>)
              [] type.Type = "REF_ARGUMENT" ->
                    IF type.Index >= Len(args.Arguments)
                    THEN Throw(s, "Invalid type reference")
                    ELSE Ok(s, At(args.Arguments, type.Index))
              [] OTHER -> Throw(s, "Invalid type reference")

\* the argument loop of LoadDependentType, from RefList position i
LoadTypeArgList(s, lastArgs, g, i, acc) ==
    IF i >= Len(g.Types) THEN Ok(s, acc)
    ELSE IF At(g.Types, i).Type = "REF_EMPTY" THEN Ok(s, acc)
    ELSE LET x == Run("LoadRefType", <<s, lastArgs, g, i>>)
         IN IF x.e # "" THEN x
            ELSE LoadTypeArgList(x.s, lastArgs, g, i + 1, Append(acc, x.r))

LoadDependentType(s, assembly, id, lastArgs, g, refListIndex, checkArgSize) ==
    LET as == Run("LoadTypeArgList", <<s, lastArgs, g, refListIndex + 1, <<>> >>)
    IN IF as.e # "" THEN as
       ELSE IF checkArgSize # SIZE_MAX /\ Len(as.r) # checkArgSize
       THEN Throw(as.s, "Invalid generic argument list")
       ELSE Run("LoadTypeInternal", <<as.s, LoadingArgs(assembly, id, as.r)>>)

LoadDependentTypeImport(s, assembly, id, lastArgs, g, refListIndex) ==
    LET a == FindAssemblyNoThrow(s.asm, assembly)
    IN IF a = Null THEN Throw(s, "Referenced assembly not found")
       ELSE IF id >= Len(s.asm[a].ImportTypes) THEN Throw(s, "Invalid type reference")
       ELSE LET i == At(s.asm[a].ImportTypes, id)
                a2 == FindAssemblyNoThrow(s.asm, i.AssemblyName)
            IN IF a2 = Null THEN Throw(s, "Referenced assembly not found")
               ELSE LET e == FindExport(s.asm[a2].ExportTypes, i.ImportName)
                    IN IF e = Null THEN Throw(s, "Import type not found")
                       ELSE Run("LoadDependentType",
                                <<s, i.AssemblyName, s.asm[a2].ExportTypes[e].InternalId,
                                  lastArgs, g, refListIndex, i.GenericParameters>>)

\* a lookup that also answers with the object being laid out
TypeLookup_AlsoLoadingTypes(s, args) ==
    LET l == FindByArgs(s.types, s.loadedTypes, args)
        f == FindByArgs(s.types, s.finishedLoadingTypes, args)
        p == FindByArgs(s.types, s.postLoadingTypes, args)
        r == FindByArgs(s.types, s.loadingRefTypes, args)
        n == FindByArgs(s.types, s.loadingTypes, args)
    IN IF l # Null THEN l ELSE IF f # Null THEN f ELSE IF p # Null THEN p
       ELSE IF r # Null THEN r ELSE n

\* the tables LoadTypeInternal searches before it creates an object, in order
TypeLookup(s, args) ==
    LET l == FindByArgs(s.types, s.loadedTypes, args)
        f == FindByArgs(s.types, s.finishedLoadingTypes, args)
        p == FindByArgs(s.types, s.postLoadingTypes, args)
        r == FindByArgs(s.types, s.loadingRefTypes, args)
    IN IF l # Null THEN l ELSE IF f # Null THEN f ELSE IF p # Null THEN p ELSE r

LoadTypeInternal(s, args) ==
    LET found == TypeLookup(s, args)
        tt == FindTypeTemplate(s, args.Assembly, args.Id)
        id == s.nextTypeId
        s1 == [s EXCEPT !.types = Append(@, NewType(args, id, tt.r.GCMode)),
                        !.nextTypeId = @ + 1]
    IN IF found # Null THEN Ok(s, found)
       ELSE IF tt.e # "" THEN tt
       ELSE IF CheckGenericArguments(tt.r, args) # ""
       THEN Throw(s, CheckGenericArguments(tt.r, args))
       ELSE IF tt.r.GCMode = "TSM_REF"
       THEN Ok([s1 EXCEPT !.loadingRefTypes = Append(@, id)], id)
       ELSE Run("LoadFields", <<s1, id>>)

\* the field resolution loop of LoadFields, from field k of the template
LoadFieldTypes(s, args, tt, k, acc) ==
    IF k > Len(tt.Fields) THEN Ok(s, acc)
    ELSE LET x == Run("LoadRefType", <<s, args, tt, tt.Fields[k]>>)
         IN IF x.e # "" THEN x
            ELSE IF x.r = Null THEN Throw(x.s, "Invalid field type")
            ELSE LoadFieldTypes(x.s, args, tt, k + 1, Append(acc, x.r))

\* the cyclic-dependence test of LoadFields
OnLoadingStack(s, args) ==
    \E i \in 1..Len(s.loadingTypes) : s.types[s.loadingTypes[i]].Args = args

LoadFields(s, t) ==
    LET me == s.types[t]
        s1 == [s EXCEPT !.loadingTypes = Append(@, t)]
        tt == FindTypeTemplate(s1, me.Args.Assembly, me.Args.Id)
        fs == Run("LoadFieldTypes", <<s1, me.Args, tt.r, 1, <<>> >>)
        lay == LayoutFields(fs.s.types, fs.r, 1, 0, 1, <<>>, s.env)
        s2 == IF lay.div0 THEN Met(fs.s, "divTrap") ELSE fs.s
    IN IF OnLoadingStack(s, me.Args) THEN Throw(s, "Cyclic type dependence")
       ELSE IF tt.e # "" THEN tt
       ELSE IF fs.e # "" THEN fs
       ELSE IF lay.e # "" THEN Throw(s2, lay.e)
       ELSE Ok([s2 EXCEPT !.types[t].Fields = lay.Fields,
                            !.types[t].Size = lay.Size,
                            !.types[t].Alignment = lay.Alignment,
                            !.postLoadingTypes = Append(@, t),
                            !.loadingTypes = SubSeq(@, 1, Len(@) - 1)], t)

RECURSIVE LoadRefFunction(_, _, _, _)
RECURSIVE LoadFuncArgList(_, _, _, _, _)

\* the tables LoadFunctionInternal searches before it creates an object
FunctionLookup(s, args) ==
    LET l == FindByArgs(s.funcs, s.loadedFunctions, args)
        f == FindByArgs(s.funcs, s.finishedLoadingFunctions, args)
    IN IF l # Null THEN l ELSE IF f # Null THEN f
       ELSE FindByArgs(s.funcs, s.loadingFunctions, args)

LoadFunctionInternal(s, args) ==
    LET found == FunctionLookup(s, args)
        ft == FindFunctionTemplate(s, args.Assembly, args.Id)
        id == s.nextFunctionId
        code == GetCode(s, args.Assembly, args.Id)
    IN IF found # Null THEN Ok(s, found)
       ELSE IF ft.e # "" THEN ft
       ELSE IF CheckGenericArguments(ft.r, args) # ""
       THEN Throw(s, CheckGenericArguments(ft.r, args))
       ELSE Ok([code.s EXCEPT !.funcs = Append(@, NewFunction(args, id, code.r)),
                              !.loadingFunctions = Append(@, id),
                              !.nextFunctionId = @ + 1], id)

\* the argument loop of LoadDependentFunction, from RefList position i
LoadFuncArgList(s, lastArgs, g, i, acc) ==
    IF i >= Len(g.Functions) THEN Ok(s, acc)
    ELSE IF At(g.Functions, i).Type = "REF_EMPTY" THEN Ok(s, acc)
    ELSE IF At(g.Functions, i).Type # "REF_CLONETYPE"
    THEN Throw(s, "Invalid generic function argument")
    ELSE LET x == Run("LoadRefType", <<s, lastArgs, g, At(g.Functions, i).Index>>)
         IN IF x.e # "" THEN x
            ELSE LoadFuncArgList(x.s, lastArgs, g, i + 1, Append(acc, x.r))

LoadDependentFunction(s, assembly, id, lastArgs, g, refListIndex, checkArgSize) ==
    LET as == Run("LoadFuncArgList", <<s, lastArgs, g, refListIndex + 1, <<>> >>)
    IN IF as.e # "" THEN as
       ELSE IF checkArgSize # SIZE_MAX /\ Len(as.r) # checkArgSize
       THEN Throw(as.s, "Invalid generic argument list")
       ELSE LoadFunctionInternal(as.s, LoadingArgs(assembly, id, as.r))

LoadDependentFunctionImport(s, assembly, id, lastArgs, g, refListIndex) ==
    LET a == FindAssemblyNoThrow(s.asm, assembly)
    IN IF a = Null THEN Throw(s, "Referenced assembly not found")
       ELSE IF id >= Len(s.asm[a].ImportFunctions)
       THEN Throw(s, "Invalid function reference")
       ELSE LET i == At(s.asm[a].ImportFunctions, id)
                a2 == FindAssemblyNoThrow(s.asm, i.AssemblyName)
            IN IF a2 = Null THEN Throw(s, "Referenced assembly not found")
               ELSE LET e == FindExport(s.asm[a2].ExportFunctions, i.ImportName)
                    IN IF e = Null THEN Throw(s, "Import function not found")
                       ELSE Run("LoadDependentFunction",
                                <<s, i.AssemblyName, s.asm[a2].ExportFunctions[e].InternalId,
                                  lastArgs, g, refListIndex, i.GenericParameters>>)

LoadRefFunction(s, args, g, funcId) ==
    IF funcId >= Len(g.Functions) THEN Throw(s, "Invalid function reference")
    ELSE LET func == At(g.Functions, funcId)
         IN CASE func.Type = "REF_EMPTY" -> Ok(s, Null)
              [] func.Type = "REF_CLONE" ->
                    IF func.Index >= Len(g.Functions)
                    THEN Throw(s, "Invalid function reference")
                    ELSE LoadRefFunction(s, args, g, func.Index)
              [] func.Type = "REF_ASSEMBLY" ->
                    Run("LoadDependentFunction",
                        <<s, args.Assembly, func.Index, args, g, funcId, SIZE_MAX>>)
              [] func.Type = "REF_IMPORT" ->
                    Run("LoadDependentFunctionImport",
                        <<s, args.Assembly, func.Index, args, g, funcId>>)
              [] OTHER -> Throw(s, "Invalid function reference")

\* the address make_unique<char[]> returns in PostLoadType: the lowest address
\* of the heap, as every buffer made before is freed by then
StaticAddress == 1

\* the block of PostLoadType for a global-storage type (its storage size and
\* alignment are Size and Alignment): StaticPointer, and the buffer, which the
\* local unique_ptr frees at the end of the block
StaticStorage(type) ==
    LET alignment == type.Alignment
        totalSize == type.Size + alignment
        rawPtr == StaticAddress
    IN [StaticPointer |-> ((rawPtr + alignment - 1) \div alignment) * alignment,
        StaticBuffer |-> [Raw |-> rawPtr, Size |-> totalSize, Allocated |-> FALSE]]

\* PostLoadType: the type was taken off _postLoadingTypes by the caller
PostLoadType(s, t) ==
    LET me == s.types[t]
        tt == FindTypeTemplate(s, me.Args.Assembly, me.Args.Id)
        i == Run("LoadRefFunction", <<s, me.Args, tt.r, tt.r.Initializer>>)
        f == Run("LoadRefFunction", <<i.s, me.Args, tt.r, tt.r.Finalizer>>)
    IN IF tt.e # "" THEN tt
       ELSE IF i.e # "" THEN i
       ELSE IF f.e # "" THEN f
       ELSE IF me.Storage # "TSM_GLOBAL" /\ i.r # Null
       THEN Throw(f.s, "Only global type can have initializer")
       ELSE IF me.Storage # "TSM_REF" /\ f.r # Null
       THEN Throw(f.s, "Only reference type can have finalizer")
       ELSE Ok([f.s EXCEPT !.types[t].Initializer = i.r,
                           !.types[t].Finalizer = f.r,
                           !.types[t].StaticPointer =
                                IF me.Storage = "TSM_GLOBAL"
                                THEN StaticStorage(me).StaticPointer ELSE Null,
                           !.types[t].StaticBuffer =
                                IF me.Storage = "TSM_GLOBAL"
                                THEN StaticStorage(me).StaticBuffer ELSE Null,
                           !.finishedLoadingTypes = Append(@, t)], t)

\* the two reference loops of PostLoadFunction
RECURSIVE LoadReferencedTypes(_, _, _, _, _)
LoadReferencedTypes(s, args, g, i, acc) ==
    IF i >= Len(g.Types) THEN Ok(s, acc)
    ELSE LET x == Run("LoadRefType", <<s, args, g, i>>)
         IN IF x.e # "" THEN x
            ELSE LoadReferencedTypes(x.s, args, g, i + 1, Append(acc, x.r))

RECURSIVE LoadReferencedFunctions(_, _, _, _, _)
LoadReferencedFunctions(s, args, g, i, acc) ==
    IF i >= Len(g.Functions) THEN Ok(s, acc)
    ELSE LET x == Run("LoadRefFunction", <<s, args, g, i>>)
         IN IF x.e # "" THEN x
            ELSE LoadReferencedFunctions(x.s, args, g, i + 1, Append(acc, x.r))

\* a pointer made of bytes that are no pointer to an object of the loader
WildPointer == -2

\* func->ReferencedType[i], read without a test of i against the size: past the
\* end the read finds bytes that are a null pointer or a pointer to no object
ReferencedTypeAt(s, v, i) ==
    IF i < Len(v) THEN At(v, i)
    ELSE IF s.env.oob = "generic" THEN WildPointer ELSE Null

\* PostLoadFunction: the function was taken off _loadingFunctions by the caller.
\* ReferencedType is read at ReturnValue.TypeId and Parameters[i].TypeId without
\* a test of the index against its size.
PostLoadFunction(s, f) ==
    LET me == s.funcs[f]
        ft == FindFunctionTemplate(s, me.Args.Assembly, me.Args.Id)
        ts == Run("LoadReferencedTypes", <<s, me.Args, ft.r, 0, <<>> >>)
        fs == Run("LoadReferencedFunctions", <<ts.s, me.Args, ft.r, 0, <<>> >>)
        outside == \/ ft.r.ReturnValue >= Len(ts.r)
                   \/ \E k \in 1..Len(ft.r.Params) : ft.r.Params[k] >= Len(ts.r)
        s0 == IF outside THEN Met(fs.s, "oob") ELSE fs.s
    IN IF ft.e # "" THEN ft
       ELSE IF ts.e # "" THEN ts
       ELSE IF fs.e # "" THEN fs
       ELSE IF outside /\ s.env.oob = "trap" THEN Throw(s0, "SIGSEGV")
       ELSE Ok([s0 EXCEPT !.funcs[f].ReferencedType = ts.r,
                          !.funcs[f].ReferencedFunction = fs.r,
                          !.funcs[f].ReturnValue =
                              ReferencedTypeAt(s0, ts.r, ft.r.ReturnValue),
                          !.funcs[f].Parameters =
                              [k \in 1..Len(ft.r.Params) |->
                                  ReferencedTypeAt(s0, ts.r, ft.r.Params[k])],
                          !.finishedLoadingFunctions = Append(@, f)], f)

Run(fn, a) ==
    CASE fn = "LoadRefType" -> LoadRefType(a[1], a[2], a[3], a[4])
      [] fn = "LoadTypeArgList" -> LoadTypeArgList(a[1], a[2], a[3], a[4], a[5])
      [] fn = "LoadDependentType" ->
            LoadDependentType(a[1], a[2], a[3], a[4], a[5], a[6], a[7])
      [] fn = "LoadDependentTypeImport" ->
            LoadDependentTypeImport(a[1], a[2], a[3], a[4], a[5], a[6])
      [] fn = "LoadTypeInternal" -> LoadTypeInternal(a[1], a[2])
      [] fn = "LoadFieldTypes" -> LoadFieldTypes(a[1], a[2], a[3], a[4], a[5])
      [] fn = "LoadFields" -> LoadFields(a[1], a[2])
      [] fn = "LoadFuncArgList" -> LoadFuncArgList(a[1], a[2], a[3], a[4], a[5])
      [] fn = "LoadDependentFunction" ->
            LoadDependentFunction(a[1], a[2], a[3], a[4], a[5], a[6], a[7])
      [] fn = "LoadDependentFunctionImport" ->
            LoadDependentFunctionImport(a[1], a[2], a[3], a[4], a[5], a[6])
      [] fn = "LoadRefFunction" -> LoadRefFunction(a[1], a[2], a[3], a[4])
      [] fn = "LoadReferencedTypes" -> LoadReferencedTypes(a[1], a[2], a[3], a[4], a[5])
      [] fn = "LoadReferencedFunctions" ->
            LoadReferencedFunctions(a[1], a[2], a[3], a[4], a[5])
      [] fn = "PostLoadType" -> PostLoadType(a[1], a[2])
      [] fn = "PostLoadFunction" -> PostLoadFunction(a[1], a[2])

Back(v) == v[Len(v)]

PopBack(v) == SubSeq(v, 1, Len(v) - 1)

RECURSIVE ProcessLoadingLists(_)

\* `continue` in the loop of ProcessLoadingLists, x being what the step returned
Continue(x) == IF x.e # "" THEN x ELSE ProcessLoadingLists(x.s)

ProcessLoadingLists(s) ==
    IF Len(s.loadingRefTypes) > 0
    THEN Continue(Run("LoadFields", <<[s EXCEPT !.loadingRefTypes = PopBack(@)],
                                      Back(s.loadingRefTypes)>>))
    ELSE IF Len(s.postLoadingTypes) > 0
    THEN Continue(Run("PostLoadType", <<[s EXCEPT !.postLoadingTypes = PopBack(@)],
                                        Back(s.postLoadingTypes)>>))
    ELSE IF Len(s.loadingFunctions) > 0
    THEN Continue(Run("PostLoadFunction", <<[s EXCEPT !.loadingFunctions = PopBack(@)],
                                            Back(s.loadingFunctions)>>))
    ELSE Ok(s, Null)

\* a final check that leaves the element type's PointerType as it is
FinalCheckType_NoBackReference(s, t) ==
    LET me == s.types[t]
        isPointer == me.Args.Assembly = "Core" /\ me.Args.Id = s.pointerTypeId
        elementType == me.Args.Arguments[1]
        \* assert(elementType->PointerType == nullptr), compiled in or not
        fails == isPointer /\ s.types[elementType].PointerType # Null
        aborts == fails /\ s.env.debug
        s0 == IF fails THEN Met(s, "debug") ELSE s
        s1 == s0
        init == s.funcs[me.Initializer]
        fin == s.funcs[me.Finalizer]
    IN IF aborts THEN Throw(s0, "SIGABRT")
       ELSE IF me.Initializer # Null
               /\ (init.ReturnValue # Null \/ Len(init.Parameters) # 0)
       THEN Throw(s1, "Invalid initializer")
       ELSE IF me.Finalizer # Null
               /\ (fin.ReturnValue # Null \/ Len(fin.Parameters) # 1)
       THEN Throw(s1, "Invalid finalizer")
       ELSE IF me.Finalizer # Null /\ fin.Parameters[1] # t
       THEN Throw(s1, "Invalid finalizer")
       ELSE Ok(s1, Null)

\* a final check that does not compare the finalizer's parameter with the type
FinalCheckType_AnyParameter(s, t) ==
    LET me == s.types[t]
        isPointer == me.Args.Assembly = "Core" /\ me.Args.Id = s.pointerTypeId
        elementType == me.Args.Arguments[1]
        \* assert(elementType->PointerType == nullptr), compiled in or not
        fails == isPointer /\ s.types[elementType].PointerType # Null
        aborts == fails /\ s.env.debug
        s0 == IF fails THEN Met(s, "debug") ELSE s
        s1 == IF isPointer THEN [s0 EXCEPT !.types[elementType].PointerType = t] ELSE s0
        init == s.funcs[me.Initializer]
        fin == s.funcs[me.Finalizer]
    IN IF aborts THEN Throw(s0, "SIGABRT")
       ELSE IF me.Initializer # Null
               /\ (init.ReturnValue # Null \/ Len(init.Parameters) # 0)
       THEN Throw(s1, "Invalid initializer")
       ELSE IF me.Finalizer # Null
               /\ (fin.ReturnValue # Null \/ Len(fin.Parameters) # 1)
       THEN Throw(s1, "Invalid finalizer")
       ELSE Ok(s1, Null)

\* FinalCheckType
FinalCheckType(s, t) ==
    LET me == s.types[t]
        isPointer == me.Args.Assembly = "Core" /\ me.Args.Id = s.pointerTypeId
        elementType == me.Args.Arguments[1]
        \* assert(elementType->PointerType == nullptr), compiled in or not
        fails == isPointer /\ s.types[elementType].PointerType # Null
        aborts == fails /\ s.env.debug
        s0 == IF fails THEN Met(s, "debug") ELSE s
        s1 == IF isPointer THEN [s0 EXCEPT !.types[elementType].PointerType = t] ELSE s0
        init == s.funcs[me.Initializer]
        fin == s.funcs[me.Finalizer]
    IN IF aborts THEN Throw(s0, "SIGABRT")
       ELSE IF me.Initializer # Null
               /\ (init.ReturnValue # Null \/ Len(init.Parameters) # 0)
       THEN Throw(s1, "Invalid initializer")
       ELSE IF me.Finalizer # Null
               /\ (fin.ReturnValue # Null \/ Len(fin.Parameters) # 1)
       THEN Throw(s1, "Invalid finalizer")
       ELSE IF me.Finalizer # Null /\ fin.Parameters[1] # t
       THEN Throw(s1, "Invalid finalizer")
       ELSE Ok(s1, Null)

\* OnTypeLoaded of the loader's subclass: the base class does nothing
OnTypeLoaded(s, t) ==
    IF s.env.hook = "OnTypeLoaded"
    THEN Throw(Logged(Met(s, "OnTypeLoaded"), "OnTypeLoaded", t), "OnTypeLoaded failed")
    ELSE Ok(Logged(Met(s, "OnTypeLoaded"), "OnTypeLoaded", t), Null)

\* OnFunctionLoaded of the loader's subclass
OnFunctionLoaded(s, f) ==
    IF s.env.hook = "OnFunctionLoaded"
    THEN Throw(Logged(Met(s, "OnFunctionLoaded"), "OnFunctionLoaded", f),
               "OnFunctionLoaded failed")
    ELSE Ok(Logged(Met(s, "OnFunctionLoaded"), "OnFunctionLoaded", f), Null)

\* a first loop of MoveFinishedObjects that calls no hook
RECURSIVE CheckFinishedTypes_NoHook(_, _)
CheckFinishedTypes_NoHook(s, k) ==
    IF k > Len(s.finishedLoadingTypes) THEN Ok(s, Null)
    ELSE LET c == FinalCheckType(s, s.finishedLoadingTypes[k])
         IN IF c.e # "" THEN c
            ELSE CheckFinishedTypes_NoHook(c.s, k + 1)

\* the first loop of MoveFinishedObjects, from position k
RECURSIVE CheckFinishedTypes(_, _)
CheckFinishedTypes(s, k) ==
    IF k > Len(s.finishedLoadingTypes) THEN Ok(s, Null)
    ELSE LET c == FinalCheckType(s, s.finishedLoadingTypes[k])
             h == OnTypeLoaded(c.s, s.finishedLoadingTypes[k])
         IN IF c.e # "" THEN c
            ELSE IF h.e # "" THEN h
            ELSE CheckFinishedTypes(h.s, k + 1)

\* the second loop of MoveFinishedObjects (FinalCheckFunction is empty)
RECURSIVE CheckFinishedFunctions(_, _)
CheckFinishedFunctions(s, k) ==
    IF k > Len(s.finishedLoadingFunctions) THEN Ok(s, Null)
    ELSE LET h == OnFunctionLoaded(s, s.finishedLoadingFunctions[k])
         IN IF h.e # "" THEN h ELSE CheckFinishedFunctions(h.s, k + 1)

\* the two moving loops of MoveFinishedObjects: from the back of the queue
RECURSIVE MoveTypes(_)
MoveTypes(s) ==
    IF Len(s.finishedLoadingTypes) = 0 THEN s
    ELSE LET t == Back(s.finishedLoadingTypes)
         IN MoveTypes([Logged(s, "AddLoadedType", t) EXCEPT
                !.loadedTypes = AddLoaded(@, s.types[t].TypeId, t),
                !.finishedLoadingTypes = PopBack(@)])

RECURSIVE MoveFunctions(_)
MoveFunctions(s) ==
    IF Len(s.finishedLoadingFunctions) = 0 THEN s
    ELSE LET f == Back(s.finishedLoadingFunctions)
         IN MoveFunctions([Logged(s, "AddLoadedFunction", f) EXCEPT
                !.loadedFunctions = AddLoaded(@, s.funcs[f].FunctionId, f),
                !.finishedLoadingFunctions = PopBack(@)])

\* publication that does not wait for the checks: the objects move to the
\* loaded tables whether or not a check or a hook throws
MoveFinishedObjects_PublishAnyway(s) ==
    LET ct == CheckFinishedTypes(s, 1)
        cf == CheckFinishedFunctions(ct.s, 1)
    IN IF ct.e # "" THEN Throw(MoveFunctions(MoveTypes(ct.s)), ct.e)
       ELSE IF cf.e # "" THEN Throw(MoveFunctions(MoveTypes(cf.s)), cf.e)
       ELSE Ok(MoveFunctions(MoveTypes(cf.s)), Null)

MoveFinishedObjects(s) ==
    LET ct == CheckFinishedTypes(s, 1)
        cf == CheckFinishedFunctions(ct.s, 1)
    IN IF ct.e # "" THEN ct
       ELSE IF cf.e # "" THEN cf
       ELSE Ok(MoveFunctions(MoveTypes(cf.s)), Null)

\* ClearLoadingLists
ClearLoadingLists(s) ==
    [s EXCEPT !.loadingTypes = <<>>, !.loadingFunctions = <<>>,
              !.loadingRefTypes = <<>>, !.postLoadingTypes = <<>>,
              !.finishedLoadingTypes = <<>>, !.finishedLoadingFunctions = <<>>]

\* the unique_ptrs of a failed request are destroyed (by the unwinding and by
\* ClearLoadingLists): every object outside the loaded tables is freed
Destroy(s) ==
    [s EXCEPT
        !.types = [i \in 1..Len(@) |->
                     IF \E k \in 1..Len(s.loadedTypes) : s.loadedTypes[k] = i
                     THEN @[i] ELSE FreedType],
        !.funcs = [i \in 1..Len(@) |->
                     IF \E k \in 1..Len(s.loadedFunctions) : s.loadedFunctions[k] = i
                     THEN @[i] ELSE FreedFunction]]

\* the statements of the try block of LoadTypeNoLock / LoadFunctionNoLock
\* that follow LoadXxxInternal.  x is what the statement before returned: the
\* next one runs unless x is an exception, and ret2 (x.r) is kept.
ThenProcessLoadingLists(x) ==
    IF x.e # "" THEN x ELSE [ProcessLoadingLists(x.s) EXCEPT !.r = x.r]

ThenMoveFinishedObjects(x) ==
    IF x.e # "" THEN x ELSE [MoveFinishedObjects(x.s) EXCEPT !.r = x.r]

\* the end of LoadTypeNoLock / LoadFunctionNoLock: ret = ret2 or the catch
\* block, then ClearLoadingLists.  r is the returned handle, e the err
\* out-parameter.
Caught(x) ==
    IF x.e = "" THEN Ok(ClearLoadingLists(x.s), x.r)
    ELSE Throw(Destroy(ClearLoadingLists(x.s)), x.e)

LoadTypeNoLock(s, args) ==
    Caught(ThenMoveFinishedObjects(ThenProcessLoadingLists(
        Run("LoadTypeInternal", <<ClearLoadingLists(s), args>>))))

LoadFunctionNoLock(s, args) ==
    Caught(ThenMoveFinishedObjects(ThenProcessLoadingLists(
        LoadFunctionInternal(ClearLoadingLists(s), args))))

\* what a read of a->Types[id] past the end of the vector finds, when it does
\* not trap: bytes that read as a plain value type, or as a generic one
WildType(oob) ==
    IF oob = "generic" THEN TypeT("TSM_VALUE", 1, <<>>, NoFunctions, <<>>, 0, 0)
    ELSE ValueLeaf

\* AddNativeTypeInternal, after AddNativeType has found the native export.
\* a->Types[id] is read without a test of id against the size of the vector.
AddNativeTypeInternal(s, assemblyName, id, size, alignment) ==
    LET a == FindAssemblyNoThrow(s.asm, assemblyName)
        outside == id >= Len(s.asm[a].Types)
        type == IF outside THEN WildType(s.env.oob) ELSE At(s.asm[a].Types, id)
        s0 == IF a # Null /\ outside THEN Met(s, "oob") ELSE s
        rt == [NewType(LoadingArgs(assemblyName, id, <<>>), s.nextTypeId, "TSM_VALUE")
                 EXCEPT !.Size = size, !.Alignment = alignment]
    IN IF a = Null THEN Throw(s, "Referenced assembly not found")
       ELSE IF outside /\ s.env.oob = "trap" THEN Throw(s0, "SIGSEGV")
       ELSE IF type.Parameters # 0 THEN Throw(s0, "Native type cannot be generic")
       ELSE IF type.GCMode # "TSM_VALUE"
       THEN Throw(s0, "Internal type can only be value type")
       ELSE IF type.Finalizer >= Len(type.Functions)
       THEN Throw(s0, "Invalid function reference")
       ELSE IF At(type.Functions, type.Finalizer).Type # "REF_EMPTY"
       THEN Throw(s0, "Internal type cannot have finalizer")
       ELSE IF type.Initializer >= Len(type.Functions)
       THEN Throw(s0, "Invalid function reference")
       ELSE IF At(type.Functions, type.Initializer).Type # "REF_EMPTY"
       THEN Throw(s0, "Internal type cannot have initializer")
       ELSE Ok([s0 EXCEPT !.types = Append(@, rt),
                          !.nextTypeId = @ + 1,
                          !.loadedTypes = AddLoaded(@, s.nextTypeId, s.nextTypeId)],
               s.nextTypeId)

\* the body of AddNativeType
AddNativeTypeNoLock(s, assemblyName, name, size, alignment) ==
    LET a == FindAssemblyNoThrow(s.asm, assemblyName)
        e == FindExport(s.asm[a].NativeTypes, name)
    IN IF a = Null THEN Throw(s, "Referenced assembly not found")
       ELSE IF e = Null THEN Throw(s, "Native object not found")
       ELSE AddNativeTypeInternal(s, assemblyName, s.asm[a].NativeTypes[e].InternalId,
                                  size, alignment)

----------------------------------------------------------------------------
(* The loader as a state machine: one action per public API call *)

\* what a call may meet: asserts compiled in or not, a trapping or a
\* non-trapping integer division by zero, the hook of the subclass that
\* throws, and what a read past the end of a vector of templates does
Envs == [debug : BOOLEAN, divTrap : BOOLEAN,
         hook : {"none", "OnTypeLoaded", "OnFunctionLoaded"},
         oob : {"leaf", "generic", "trap"}]

\* the environment in which nothing stops a call: no assert, no trap, no
\* throwing hook.  A call in any other environment runs like the call in this
\* one up to the first point where they differ, so the points this call comes
\* to (met) include the points every other one comes to.
QuietEnv == [debug |-> FALSE, divTrap |-> FALSE, hook |-> "none", oob |-> "leaf"]

\* the environments that differ from QuietEnv only in points the call comes to
EnvsMet(met) ==
    {env \in Envs : /\ env.debug => "debug" \in met
                    /\ env.divTrap => "divTrap" \in met
                    /\ env.hook # "none" => env.hook \in met
                    /\ env.oob # "leaf" => "oob" \in met}

\* the loader object, as the internal functions see it during a call
Loader(env) ==
    [asm |-> AssemblyList(assemblies),
     pointerTypeId |-> PointerTypeId(AssemblyList(assemblies)),
     env |-> env, met |-> {}, log |-> <<>>,
     loadedTypes |-> loadedTypes, loadedFunctions |-> loadedFunctions,
     codeStorage |-> codeStorage, types |-> types, funcs |-> funcs,
     loadingTypes |-> loadingTypes, loadingRefTypes |-> loadingRefTypes,
     postLoadingTypes |-> postLoadingTypes, loadingFunctions |-> loadingFunctions,
     finishedLoadingTypes |-> finishedLoadingTypes,
     finishedLoadingFunctions |-> finishedLoadingFunctions,
     nextTypeId |-> nextTypeId, nextFunctionId |-> nextFunctionId]

\* the loader's members after a call
Install(s) ==
    /\ loadedTypes' = s.loadedTypes
    /\ loadedFunctions' = s.loadedFunctions
    /\ codeStorage' = s.codeStorage
    /\ types' = s.types
    /\ funcs' = s.funcs
    /\ loadingTypes' = s.loadingTypes
    /\ loadingRefTypes' = s.loadingRefTypes
    /\ postLoadingTypes' = s.postLoadingTypes
    /\ loadingFunctions' = s.loadingFunctions
    /\ finishedLoadingTypes' = s.finishedLoadingTypes
    /\ finishedLoadingFunctions' = s.finishedLoadingFunctions
    /\ nextTypeId' = s.nextTypeId
    /\ nextFunctionId' = s.nextFunctionId

loaderVars == <<loadedTypes, loadedFunctions, codeStorage, types, funcs,
                loadingTypes, loadingRefTypes, postLoadingTypes, loadingFunctions,
                finishedLoadingTypes, finishedLoadingFunctions, nextTypeId,
                nextFunctionId>>

\* again: the caller already holds a handle from an earlier call of the same
\* operation with equal LoadingArguments
Call(op, args, name, size, alignment, ret, err) ==
    [op |-> op, args |-> args, name |-> name, size |-> size,
     alignment |-> alignment, ret |-> ret, err |-> err,
     again |-> \E h \in held : h.op = op /\ h.args = args]

\* the call returns: ret and err go to the caller
Return(op, args, name, size, alignment, x) ==
    IF x.e \in Signals
    THEN /\ crashed' = TRUE
         /\ lastCall' = Call(op, args, name, size, alignment, Null, x.e)
         /\ log' = x.s.log
         /\ UNCHANGED <<loaderVars, held>>
    ELSE /\ Install(x.s)
         /\ lastCall' = Call(op, args, name, size, alignment, x.r, x.e)
         /\ log' = x.s.log
         /\ held' = IF x.r = Null THEN held
                    ELSE held \cup {[op |-> op, args |-> args, handle |-> x.r]}
         /\ UNCHANGED crashed

\* what a call of the API by the only caller leaves alone
callerFrame == <<assemblies, loaderLock, threads, resolution, declCall, solver>>

Bounded == (nextTypeId - 1) + (nextFunctionId - 1) < MaxObjects

\* the handles a caller can pass as generic arguments
Handles == {loadedTypes[i] : i \in 1..Len(loadedTypes)} \ {Null}

AssemblyNames == {AssemblyList(assemblies)[i].AssemblyName :
                    i \in 1..Len(AssemblyList(assemblies))}

\* requests for the type templates of the bundle, with arguments that fit the
\* template's parameter count or with none
TypeRequests ==
    UNION {UNION {{LoadingArgs(AssemblyList(assemblies)[a].AssemblyName, id - 1, as) :
                     as \in [1..AssemblyList(assemblies)[a].Types[id].Parameters -> Handles]
                            \cup {<<>>}} :
                  id \in 1..Len(AssemblyList(assemblies)[a].Types)} :
           a \in 1..Len(AssemblyList(assemblies))}

FunctionRequests ==
    UNION {UNION {{LoadingArgs(AssemblyList(assemblies)[a].AssemblyName, id - 1, as) :
                     as \in [1..AssemblyList(assemblies)[a].Functions[id].Parameters -> Handles]
                            \cup {<<>>}} :
                  id \in 1..Len(AssemblyList(assemblies)[a].Functions)} :
           a \in 1..Len(AssemblyList(assemblies))}

\* GetType
GetType(args) ==
    /\ ~crashed
    /\ LET hit == FindByArgs(types, loadedTypes, args)
       IN IF hit # Null
          THEN Return("GetType", args, "", 0, 0, Ok(Loader(QuietEnv), hit))
          ELSE /\ Bounded
               /\ \E env \in EnvsMet(LoadTypeNoLock(Loader(QuietEnv), args).s.met) :
                    Return("GetType", args, "", 0, 0, LoadTypeNoLock(Loader(env), args))
    /\ UNCHANGED callerFrame

\* what the read of f->Args through a null entry of _loadedFunctions does
NullReads == {"trap", "equal", "unequal"}

\* the scan of GetFunction: it reads f->Args of every entry up to the first
\* match, the empty slots included
GetFunctionScan(s, args, nullRead) ==
    LET match == {i \in 1..Len(s.loadedFunctions) :
                    IF s.loadedFunctions[i] = Null THEN nullRead = "equal"
                    ELSE s.funcs[s.loadedFunctions[i]].Args = args}
        first == CHOOSE i \in match : \A j \in match : i <= j
        nulls == {i \in 1..Len(s.loadedFunctions) : s.loadedFunctions[i] = Null}
        upTo == IF match = {} THEN Len(s.loadedFunctions) ELSE first
    IN IF nullRead = "trap" /\ \E i \in nulls : i <= upTo THEN Throw(s, "SIGSEGV")
       ELSE IF match # {} THEN Ok(s, s.loadedFunctions[first])
       ELSE LoadFunctionNoLock(s, args)

\* GetFunction
GetFunction(args, nullRead) ==
    /\ ~crashed
    /\ Bounded \/ FindByArgs(funcs, loadedFunctions, args) # Null
    /\ \E env \in EnvsMet(GetFunctionScan(Loader(QuietEnv), args, nullRead).s.met) :
          Return("GetFunction", args, "", 0, 0,
                 GetFunctionScan(Loader(env), args, nullRead))
    /\ UNCHANGED callerFrame

NativeNames ==
    UNION {{AssemblyList(assemblies)[a].NativeTypes[i].ExportName :
              i \in 1..Len(AssemblyList(assemblies)[a].NativeTypes)} :
           a \in 1..Len(AssemblyList(assemblies))}

\* the (size, alignment) pairs callers register native types with
NativeShapes == {<<4, 4>>, <<1, 1>>, <<3, 0>>}

\* AddNativeType
AddNativeType(assemblyName, name, size, alignment) ==
    /\ ~crashed
    /\ Bounded
    /\ \E env \in EnvsMet(AddNativeTypeNoLock(Loader(QuietEnv), assemblyName, name,
                                               size, alignment).s.met) :
          Return("AddNativeType", LoadingArgs(assemblyName, 0, <<>>), name, size, alignment,
                 AddNativeTypeNoLock(Loader(env), assemblyName, name, size, alignment))
    /\ UNCHANGED callerFrame

\* the ids callers ask for: 0, the ids of both tables, the table lengths and
\* an id beyond them
RequestedIds ==
    0..((IF Len(loadedTypes) > Len(loadedFunctions)
         THEN Len(loadedTypes) ELSE Len(loadedFunctions)) + 1)

\* GetTypeById
GetTypeById(id) ==
    /\ ~crashed
    /\ lastCall' = Call("GetTypeById", LoadingArgs("", id, <<>>), "", 0, 0,
                        IF id >= Len(loadedTypes) THEN Null ELSE At(loadedTypes, id), "")
    /\ log' = <<>>
    /\ UNCHANGED <<loaderVars, held, crashed, callerFrame>>

\* what the read of _loadedFunctions[size()], one element past the end of the
\* vector, does: it traps, finds a null pointer, or finds other bytes
OutsideReads == {"trap", "null", "wild"}

\* GetFunctionById: the test is id > size(), so id = size() goes on to the read
GetFunctionById(id, outsideRead) ==
    /\ ~crashed
    /\ LET ret == IF id > Len(loadedFunctions) THEN Null
                  ELSE IF id < Len(loadedFunctions) THEN At(loadedFunctions, id)
                  ELSE IF outsideRead = "null" THEN Null ELSE WildPointer
           trap == id = Len(loadedFunctions) /\ outsideRead = "trap"
       IN /\ crashed' = trap
          /\ lastCall' = Call("GetFunctionById", LoadingArgs("", id, <<>>), "", 0, 0,
                              IF trap THEN Null ELSE ret, IF trap THEN "SIGSEGV" ELSE "")
    /\ log' = <<>>
    /\ UNCHANGED <<loaderVars, held, callerFrame>>

\* a LoadPointerType that does not put t into the argument list
LoadPointerType_NoArgument(t, debug) ==
    /\ ~crashed
    /\ LET args == LoadingArgs("Core", PointerTypeId(AssemblyList(assemblies)), <<>>)
           hit == FindByArgs(types, loadedTypes, args)
           fails == types[t].PointerType # Null
       IN IF fails /\ debug
          THEN Return("LoadPointerType", LoadingArgs("", 0, <<t>>), "", 0, 0,
                      Throw(Loader(QuietEnv), "SIGABRT"))
          ELSE IF hit # Null
          THEN Return("LoadPointerType", LoadingArgs("", 0, <<t>>), "", 0, 0,
                      Ok(Loader(QuietEnv), hit))
          ELSE /\ Bounded
               /\ \E env \in EnvsMet(LoadTypeNoLock(Loader(QuietEnv), args).s.met) :
                    /\ fails => ~env.debug
                    /\ Return("LoadPointerType", LoadingArgs("", 0, <<t>>), "", 0, 0,
                              LoadTypeNoLock(Loader(env), args))
    /\ UNCHANGED callerFrame

\* LoadPointerType: assert(t->PointerType == nullptr), compiled in (debug) or
\* not, then GetType on Core.Pointer<t>.  The call is recorded with its
\* argument t.
LoadPointerType(t, debug) ==
    /\ ~crashed
    /\ LET args == LoadingArgs("Core", PointerTypeId(AssemblyList(assemblies)), <<t>>)
           hit == FindByArgs(types, loadedTypes, args)
           fails == types[t].PointerType # Null
       IN IF fails /\ debug
          THEN Return("LoadPointerType", LoadingArgs("", 0, <<t>>), "", 0, 0,
                      Throw(Loader(QuietEnv), "SIGABRT"))
          ELSE IF hit # Null
          THEN Return("LoadPointerType", LoadingArgs("", 0, <<t>>), "", 0, 0,
                      Ok(Loader(QuietEnv), hit))
          ELSE /\ Bounded
               /\ \E env \in EnvsMet(LoadTypeNoLock(Loader(QuietEnv), args).s.met) :
                    /\ fails => ~env.debug
                    /\ Return("LoadPointerType", LoadingArgs("", 0, <<t>>), "", 0, 0,
                              LoadTypeNoLock(Loader(env), args))
    /\ UNCHANGED callerFrame

NoCall == [op |-> "none", args |-> NoArgs, name |-> "", size |-> 0, alignment |-> 0,
           ret |-> Null, err |-> "", again |-> FALSE]

\* the callers of the concurrent runs
Threads == {1, 2}

\* a thread outside the API
Idle == [pc |-> "idle", call |-> NoCall, env |-> QuietEnv, overlap |-> FALSE]

NoResolution == [kind |-> "none", import |-> Import("", "", SIZE_MAX),
                 found |-> FALSE, result |-> NoArgs, value |-> 0, err |-> ""]

\* the members of a loader that has just been constructed
NoDeclCall == [op |-> "none"]

NoSolver == [pc |-> "none"]

Start ==
    /\ loadedTypes = <<>>
    /\ loadedFunctions = <<>>
    /\ codeStorage = <<>>
    /\ types = <<>>
    /\ funcs = <<>>
    /\ loadingTypes = <<>>
    /\ loadingRefTypes = <<>>
    /\ postLoadingTypes = <<>>
    /\ loadingFunctions = <<>>
    /\ finishedLoadingTypes = <<>>
    /\ finishedLoadingFunctions = <<>>
    /\ nextTypeId = 1
    /\ nextFunctionId = 1
    /\ lastCall = NoCall
    /\ held = {}
    /\ crashed = FALSE
    /\ log = <<>>
    /\ loaderLock = Null
    /\ threads = [th \in Threads |-> Idle]
    /\ resolution = NoResolution
    /\ declCall = NoDeclCall
    /\ solver = NoSolver

Init == assemblies \in Bundles /\ Start

Next ==
    \/ \E args \in TypeRequests : GetType(args)
    \/ \E args \in FunctionRequests, nullRead \in NullReads : GetFunction(args, nullRead)
    \/ \E a \in AssemblyNames, n \in NativeNames, sh \in NativeShapes :
            AddNativeType(a, n, sh[1], sh[2])

Spec == Init /\ [][Next]_vars

\* the whole public API, over the bundles with native exports
ApiBundles == {"Pointer", "Native"}

InitApi == assemblies \in ApiBundles /\ Start

NextApi ==
    \/ \E args \in TypeRequests : GetType(args)
    \/ \E args \in FunctionRequests, nullRead \in NullReads : GetFunction(args, nullRead)
    \/ \E a \in AssemblyNames, n \in NativeNames, sh \in NativeShapes :
            AddNativeType(a, n, sh[1], sh[2])
    \/ \E id \in RequestedIds : GetTypeById(id)
    \/ \E id \in RequestedIds, outsideRead \in OutsideReads :
            GetFunctionById(id, outsideRead)
    \/ \E t \in Handles, debug \in BOOLEAN : LoadPointerType(t, debug)

SpecApi == InitApi /\ [][NextApi]_vars

\* the loader over the bundle with the pointer template, with LoadPointerType
InitPointer == assemblies = "Pointer" /\ Start

NextPointer ==
    \/ \E args \in TypeRequests : GetType(args)
    \/ \E args \in FunctionRequests, nullRead \in NullReads : GetFunction(args, nullRead)
    \/ \E a \in AssemblyNames, n \in NativeNames, sh \in NativeShapes :
            AddNativeType(a, n, sh[1], sh[2])
    \/ \E t \in Handles, debug \in BOOLEAN : LoadPointerType(t, debug)

SpecPointer == InitPointer /\ [][NextPointer]_vars

\* the loader over the bundles whose types declare initializers and finalizers
WiringBundles == {"Funcs", "Wiring"}

InitWiring == assemblies \in WiringBundles /\ Start

SpecWiring == InitWiring /\ [][Next]_vars

\* ---------------------------------------------------------------------------
\* Concurrent callers.  Every API function begins with
\* std::lock_guard<Spinlock> lock(_loaderLock): a thread spins in the
\* constructor (pc "spin") until the lock is free, runs the body holding it
\* (pc "held", and "load" inside LoadTypeNoLock after LoadTypeInternal) and
\* releases it in the destructor (pc "unlock").  threads[th].overlap tells
\* whether the call of th has been in progress together with the call of
\* another thread.
\* ---------------------------------------------------------------------------

\* Spinlock::lock: taken only when no thread holds it
Lock(th) ==
    /\ loaderLock = Null
    /\ loaderLock' = th

\* Spinlock::unlock
Unlock(th) ==
    /\ loaderLock = th
    /\ loaderLock' = Null

\* the calls a thread makes
ThreadCalls ==
    {Call("GetType", args, "", 0, 0, Null, "") : args \in TypeRequests}
    \cup {Call("GetFunction", args, "", 0, 0, Null, "") : args \in FunctionRequests}
    \cup {Call("AddNativeType", LoadingArgs(a, 0, <<>>), n, 4, 4, Null, "") :
             a \in AssemblyNames, n \in NativeNames}
    \cup {Call("GetTypeById", LoadingArgs("", id, <<>>), "", 0, 0, Null, "") :
             id \in RequestedIds}
    \cup {Call("GetFunctionById", LoadingArgs("", id, <<>>), "", 0, 0, Null, "") :
             id \in RequestedIds}

threadFrame == <<assemblies, lastCall, held, log, resolution, declCall, solver>>

\* a thread calls the API function c.op
Enter(th, c) ==
    /\ ~crashed
    /\ Bounded
    /\ threads[th].pc = "idle"
    /\ threads' = [o \in Threads |->
                     IF o = th
                     THEN [pc |-> "spin", call |-> c, env |-> QuietEnv,
                           overlap |-> \E u \in Threads \ {th} : threads[u].pc # "idle"]
                     ELSE IF threads[o].pc # "idle"
                     THEN [threads[o] EXCEPT !.overlap = TRUE]
                     ELSE threads[o]]
    /\ UNCHANGED <<loaderVars, crashed, loaderLock, threadFrame>>

\* the constructor of the lock_guard returns
Acquire(th) ==
    /\ ~crashed
    /\ threads[th].pc = "spin"
    /\ Lock(th)
    /\ threads' = [threads EXCEPT ![th].pc = "held"]
    /\ UNCHANGED <<loaderVars, crashed, threadFrame>>

\* the body of the call of th has got as far as x: the thread goes on at pc
Proceed(th, pc, env, x) ==
    IF x.e \in Signals
    THEN /\ crashed' = TRUE
         /\ threads' = [threads EXCEPT ![th].call.err = x.e]
         /\ UNCHANGED loaderVars
    ELSE /\ Install(x.s)
         /\ threads' = [threads EXCEPT ![th].pc = pc, ![th].env = env,
                                       ![th].call.ret = x.r, ![th].call.err = x.e]
         /\ UNCHANGED crashed

Holding(th, op) ==
    /\ ~crashed
    /\ threads[th].pc = "held"
    /\ threads[th].call.op = op

\* GetType under the lock: the scan of _loadedTypes and, when it finds
\* nothing, LoadTypeNoLock as far as the return of LoadTypeInternal
GetTypeBegin(th) ==
    /\ Holding(th, "GetType")
    /\ LET args == threads[th].call.args
           hit == FindByArgs(types, loadedTypes, args)
       IN IF hit # Null
          THEN Proceed(th, "unlock", QuietEnv, Ok(Loader(QuietEnv), hit))
          ELSE \E env \in EnvsMet(LoadTypeNoLock(Loader(QuietEnv), args).s.met) :
                  Proceed(th, "load", env,
                          Run("LoadTypeInternal", <<ClearLoadingLists(Loader(env)), args>>))
    /\ UNCHANGED <<loaderLock, threadFrame>>

\* the rest of LoadTypeNoLock: ProcessLoadingLists, MoveFinishedObjects, the
\* catch block and ClearLoadingLists
GetTypeEnd(th) ==
    /\ ~crashed
    /\ threads[th].pc = "load"
    /\ Proceed(th, "unlock", threads[th].env,
               Caught(ThenMoveFinishedObjects(ThenProcessLoadingLists(
                   [s |-> Loader(threads[th].env), r |-> threads[th].call.ret,
                    e |-> threads[th].call.err]))))
    /\ UNCHANGED <<loaderLock, threadFrame>>

\* GetFunction under the lock
GetFunctionHeld(th, nullRead) ==
    /\ Holding(th, "GetFunction")
    /\ \E env \in EnvsMet(GetFunctionScan(Loader(QuietEnv), threads[th].call.args,
                                           nullRead).s.met) :
          Proceed(th, "unlock", env,
                  GetFunctionScan(Loader(env), threads[th].call.args, nullRead))
    /\ UNCHANGED <<loaderLock, threadFrame>>

\* AddNativeType under the lock
AddNativeTypeHeld(th) ==
    /\ Holding(th, "AddNativeType")
    /\ \E env \in EnvsMet(AddNativeTypeNoLock(Loader(QuietEnv),
                               threads[th].call.args.Assembly, threads[th].call.name,
                               threads[th].call.size, threads[th].call.alignment).s.met) :
          Proceed(th, "unlock", env,
                  AddNativeTypeNoLock(Loader(env), threads[th].call.args.Assembly,
                                      threads[th].call.name, threads[th].call.size,
                                      threads[th].call.alignment))
    /\ UNCHANGED <<loaderLock, threadFrame>>

\* GetTypeById under the lock
GetTypeByIdHeld(th) ==
    /\ Holding(th, "GetTypeById")
    /\ Proceed(th, "unlock", QuietEnv,
               Ok(Loader(QuietEnv),
                  IF threads[th].call.args.Id >= Len(loadedTypes) THEN Null
                  ELSE At(loadedTypes, threads[th].call.args.Id)))
    /\ UNCHANGED <<loaderLock, threadFrame>>

\* GetFunctionById under the lock
GetFunctionByIdHeld(th, outsideRead) ==
    /\ Holding(th, "GetFunctionById")
    /\ LET id == threads[th].call.args.Id
       IN Proceed(th, "unlock", QuietEnv,
                  IF id > Len(loadedFunctions) THEN Ok(Loader(QuietEnv), Null)
                  ELSE IF id < Len(loadedFunctions)
                  THEN Ok(Loader(QuietEnv), At(loadedFunctions, id))
                  ELSE IF outsideRead = "trap" THEN Throw(Loader(QuietEnv), "SIGSEGV")
                  ELSE IF outsideRead = "null" THEN Ok(Loader(QuietEnv), Null)
                  ELSE Ok(Loader(QuietEnv), WildPointer))
    /\ UNCHANGED <<loaderLock, threadFrame>>

\* the destructor of the lock_guard: the call returns
Release(th) ==
    /\ ~crashed
    /\ threads[th].pc = "unlock"
    /\ Unlock(th)
    /\ threads' = [threads EXCEPT ![th].pc = "idle"]
    /\ UNCHANGED <<loaderVars, crashed, threadFrame>>

InitThreads == assemblies = "Shared" /\ Start

NextThreads ==
    \/ \E th \in Threads, c \in ThreadCalls : Enter(th, c)
    \/ \E th \in Threads : Acquire(th)
    \/ \E th \in Threads : GetTypeBegin(th)
    \/ \E th \in Threads : GetTypeEnd(th)
    \/ \E th \in Threads, nullRead \in NullReads : GetFunctionHeld(th, nullRead)
    \/ \E th \in Threads : AddNativeTypeHeld(th)
    \/ \E th \in Threads : GetTypeByIdHeld(th)
    \/ \E th \in Threads, outsideRead \in OutsideReads : GetFunctionByIdHeld(th, outsideRead)
    \/ \E th \in Threads : Release(th)

SpecThreads == InitThreads /\ [][NextThreads]_vars

\* ---------------------------------------------------------------------------
\* Import resolution (RuntimeLoaderData.h).  An assembly is given by its
\* tables of each kind: the generic parameter counts of its templates, its
\* import records and its export records.  An export whose InternalId is not
\* below the number of templates re-exports the import InternalId - size.
\* ---------------------------------------------------------------------------

Kinds == {"Type", "Function", "Trait"}

Tables(templates, imports, exports) ==
    [Templates |-> templates, Imports |-> imports, Exports |-> exports]

DataAsm(name, tables) ==
    [AssemblyName |-> name, Type |-> tables, Function |-> tables, Trait |-> tables]

\* A: 0 one template with 1 parameter, exported as X; R re-exports B.Y with no
\*    arity, R1 re-exports B.Y with arity 1, RR re-exports B.Hop, Loop
\*    re-exports A.Loop, Gone re-exports from an assembly that is not there,
\*    Far names an import that is not in the table
\* B: a template with 2 parameters exported as Y; Hop re-exports C.V
\* C: a template with 0 parameters exported as V
ReExportBundle ==
    << DataAsm("A", Tables(<<1>>,
                           <<Import("B", "Y", SIZE_MAX), Import("B", "Y", 1),
                             Import("A", "Loop", SIZE_MAX), Import("Z", "Q", SIZE_MAX),
                             Import("B", "Hop", SIZE_MAX)>>,
                           <<Export("X", 0), Export("R", 1), Export("R1", 2),
                             Export("Loop", 3), Export("Gone", 4), Export("Far", 9),
                             Export("RR", 5)>>)),
       DataAsm("B", Tables(<<2>>,
                           <<Import("C", "V", SIZE_MAX)>>,
                           <<Export("Y", 0), Export("Hop", 1)>>)),
       DataAsm("C", Tables(<<0>>, <<>>, <<Export("V", 0)>>)) >>

\* what a recursion without end does: the stack overflows, or, where the
\* compiler turns the tail call into a jump, the call never returns
Endless == {"SIGSEGV", "never returns"}

Resolved(found, result, err) == [found |-> found, result |-> result, err |-> err]

\* FindExportType / FindExportFunction / FindExportTrait: the three functions
\* are the same code over the tables of their kind.  seen holds the import
\* records of the calls in progress: a call on one of them repeats for ever.
RECURSIVE FindExportOfKind(_, _, _, _, _)
FindExportOfKind(al, kind, args, seen, endless) ==
    LET a == FindAssemblyNoThrow(al, args.AssemblyName)
        e == FindExport(al[a][kind].Exports, args.ImportName)
        InternalId == al[a][kind].Exports[e].InternalId
        size == Len(al[a][kind].Templates)
        importId == InternalId - size
    IN IF a = Null THEN Resolved(FALSE, NoArgs, "Referenced assembly not found")
       ELSE IF e = Null THEN Resolved(FALSE, NoArgs, "")
       ELSE IF InternalId >= size
       THEN IF importId >= Len(al[a][kind].Imports) THEN Resolved(FALSE, NoArgs, "")
            ELSE IF At(al[a][kind].Imports, importId) \in seen \cup {args}
            THEN Resolved(FALSE, NoArgs, endless)
            ELSE FindExportOfKind(al, kind, At(al[a][kind].Imports, importId),
                                  seen \cup {args}, endless)
       ELSE IF args.GenericParameters # SIZE_MAX
               /\ At(al[a][kind].Templates, InternalId) # args.GenericParameters
       THEN Resolved(FALSE, NoArgs, "")
       ELSE Resolved(TRUE, LoadingArgs(args.AssemblyName, InternalId, <<>>), "")

FindExportType(al, args, endless) == FindExportOfKind(al, "Type", args, {}, endless)

FindExportFunction(al, args, endless) == FindExportOfKind(al, "Function", args, {}, endless)

FindExportTrait(al, args, endless) == FindExportOfKind(al, "Trait", args, {}, endless)

\* the import records callers resolve
ImportRecords ==
    {Import(a, n, g) :
        a \in {"A", "B", "C", "Z"},
        n \in {"X", "R", "R1", "RR", "Loop", "Gone", "Far", "Y", "Hop", "V", "None"},
        g \in {SIZE_MAX, 0, 1, 2}}

\* a call of one of the three functions; its outcome goes to the caller
Resolve(kind, args, x) ==
    /\ ~crashed
    /\ resolution' = [kind |-> kind, import |-> args, found |-> x.found,
                      result |-> x.result, value |-> 0, err |-> x.err]
    /\ crashed' = (x.err \in Endless)
    /\ UNCHANGED <<loaderVars, assemblies, lastCall, held, log, loaderLock, threads,
                   declCall, solver>>

\* the constant tables of three assemblies.  An export record of a constant
\* holds a name and InternalId and nothing else.
\* A: Own = 5; Again re-exports its import 0 (B.K); Twice re-exports its
\*    import 1 (B.K2)
\* B: K = 7; K2 re-exports its import 0 (C.K)
\* C: K = 9
ConstantBundle ==
    << [AssemblyName |-> "A",
        ImportConstants |-> <<Import("B", "K", 0), Import("B", "K2", 0)>>,
        ExportConstants |-> <<Export("Own", 5), Export("Again", 0), Export("Twice", 1)>>],
       [AssemblyName |-> "B",
        ImportConstants |-> <<Import("C", "K", 0)>>,
        ExportConstants |-> <<Export("K", 7), Export("K2", 0)>>],
       [AssemblyName |-> "C",
        ImportConstants |-> <<>>,
        ExportConstants |-> <<Export("K", 9)>>] >>

\* the exports of ConstantBundle that the assemblies mean as re-exports: their
\* InternalId names the import record
ConstantReExports == {<<"A", "Again">>, <<"A", "Twice">>, <<"B", "K2">>}

\* FindExportConstant.  The InternalIds of the bundle are below 2^32, so the
\* cast to std::uint32_t leaves them as they are.
FindExportConstant(al, assemblyName, n) ==
    LET a == FindAssemblyNoThrow(al, assemblyName)
        e == FindExport(al[a].ExportConstants, n)
    IN IF a = Null THEN [found |-> FALSE, value |-> 0, err |-> "Referenced assembly not found"]
       ELSE IF e = Null THEN [found |-> FALSE, value |-> 0, err |-> "Constant export not found"]
       ELSE [found |-> TRUE, value |-> al[a].ExportConstants[e].InternalId, err |-> ""]

\* LoadImportConstant(a, index)
LoadImportConstant(al, a, index) ==
    IF index >= Len(al[a].ImportConstants)
    THEN [found |-> FALSE, value |-> 0, err |-> "Invalid constant import reference"]
    ELSE IF At(al[a].ImportConstants, index).GenericParameters # 0
    THEN [found |-> FALSE, value |-> 0, err |-> "Invalid constant import"]
    ELSE FindExportConstant(al, At(al[a].ImportConstants, index).AssemblyName,
                            At(al[a].ImportConstants, index).ImportName)

\* a call of LoadImportConstant on import record index of assembly a
ResolveConstant(a, index) ==
    /\ ~crashed
    /\ LET x == LoadImportConstant(ConstantBundle, a, index)
       IN resolution' = [kind |-> "Constant",
                         import |-> IF index < Len(ConstantBundle[a].ImportConstants)
                                    THEN At(ConstantBundle[a].ImportConstants, index)
                                    ELSE Import("", "", SIZE_MAX),
                         found |-> x.found, result |-> NoArgs, value |-> x.value,
                         err |-> x.err]
    /\ UNCHANGED <<loaderVars, assemblies, lastCall, held, log, loaderLock, threads,
                   crashed, declCall, solver>>

\* a call of FindExportConstant
ResolveExportConstant(assemblyName, n) ==
    /\ ~crashed
    /\ LET x == FindExportConstant(ConstantBundle, assemblyName, n)
       IN resolution' = [kind |-> "Constant", import |-> Import(assemblyName, n, 0),
                         found |-> x.found, result |-> NoArgs, value |-> x.value,
                         err |-> x.err]
    /\ UNCHANGED <<loaderVars, assemblies, lastCall, held, log, loaderLock, threads,
                   crashed, declCall, solver>>

InitImports == assemblies = "ReExport" /\ Start

NextImports ==
    \/ \E args \in ImportRecords, endless \in Endless :
          Resolve("Type", args, FindExportType(ReExportBundle, args, endless))
    \/ \E args \in ImportRecords, endless \in Endless :
          Resolve("Function", args, FindExportFunction(ReExportBundle, args, endless))
    \/ \E args \in ImportRecords, endless \in Endless :
          Resolve("Trait", args, FindExportTrait(ReExportBundle, args, endless))
    \/ \E a \in 1..Len(ConstantBundle), index \in 0..2 : ResolveConstant(a, index)
    \/ \E a \in {"A", "B", "C", "Z"}, n \in {"Own", "Again", "Twice", "K", "K2", "None"} :
          ResolveExportConstant(a, n)

SpecImports == InitImports /\ [][NextImports]_vars

----------------------------------------------------------------------------
(* Properties *)

\* the ids GetTypeById / GetFunctionById answer with an object
ValidTypeIds == {i \in 0..(Len(loadedTypes) - 1) : At(loadedTypes, i) # Null}

ValidFunctionIds == {i \in 0..(Len(loadedFunctions) - 1) : At(loadedFunctions, i) # Null}

\* the call returned with an exception caught by LoadTypeNoLock / LoadFunctionNoLock
Failed(call) ==
    call.op \in {"GetType", "GetFunction"} /\ call.err # "" /\ call.err \notin Signals

\* C1: after a GetType(args) call has succeeded, every later GetType call with
\* equal LoadingArguments returns the same handle, reports no error and
\* changes nothing in the loader (tables, heap, counters, queues, code cache),
\* whatever calls ran in between
C1_GetTypeIdempotent ==
    [][\A h \in held :
          (h.op = "GetType" /\ lastCall'.op = "GetType" /\ lastCall'.args = h.args)
             => /\ lastCall'.ret = h.handle
                /\ lastCall'.err = ""
                /\ UNCHANGED loaderVars]_vars

\* a GetType has been repeated for a handle the caller holds, after later calls
\* have published further objects
C1_Witness ==
    /\ lastCall.op = "GetType"
    /\ lastCall.again
    /\ lastCall.ret # Null
    /\ \E h \in held : h.handle > lastCall.ret /\ h.args # lastCall.args

\* C2: after a GetFunction(args) call has succeeded, every later GetFunction
\* call with equal LoadingArguments completes normally, returns the same handle
\* and changes nothing in the loader
C2_GetFunctionIdempotent ==
    [][\A h \in held :
          (h.op = "GetFunction" /\ lastCall'.op = "GetFunction"
                                /\ lastCall'.args = h.args)
             => /\ ~crashed'
                /\ lastCall'.ret = h.handle
                /\ lastCall'.err = ""
                /\ UNCHANGED loaderVars]_vars

\* C3: no two entries of the loaded type table have equal LoadingArguments,
\* and no two entries of the loaded function table have equal LoadingArguments
C3_LoadedArgsUnique ==
    /\ \A i, j \in ValidTypeIds :
          i # j => types[At(loadedTypes, i)].Args # types[At(loadedTypes, j)].Args
    /\ \A i, j \in ValidFunctionIds :
          i # j => funcs[At(loadedFunctions, i)].Args # funcs[At(loadedFunctions, j)].Args

\* C4: a GetType or GetFunction call that fails returns null with an error
\* message, leaves the lengths of both loaded tables as they were, and makes
\* no id valid that was invalid before the call
C4_FailurePublishesNothing ==
    [][Failed(lastCall')
          => /\ lastCall'.ret = Null
             /\ Len(loadedTypes') = Len(loadedTypes)
             /\ Len(loadedFunctions') = Len(loadedFunctions)
             /\ ValidTypeIds' \subseteq ValidTypeIds
             /\ ValidFunctionIds' \subseteq ValidFunctionIds]_vars

\* a call has failed after it had created objects (its ids are used up), in a
\* loader that already has published objects
C4_Witness ==
    /\ Failed(lastCall)
    /\ ValidTypeIds # {}
    /\ (nextTypeId - 1) + (nextFunctionId - 1)
          > Cardinality(ValidTypeIds) + Cardinality(ValidFunctionIds)

\* C5: a GetType or GetFunction call that fails leaves the whole loader state
\* as it was: the loaded tables, the next type id and the next function id,
\* the code cache, and the PointerType of every loaded type
C5_FailureChangesNothing ==
    [][Failed(lastCall')
          => /\ loadedTypes' = loadedTypes
             /\ loadedFunctions' = loadedFunctions
             /\ nextTypeId' = nextTypeId
             /\ nextFunctionId' = nextFunctionId
             /\ codeStorage' = codeStorage
             /\ \A h \in Handles : types'[h].PointerType = types[h].PointerType]_vars

\* C6: every published id is non-zero and the loaded tables are dense: every
\* index i with 1 <= i < table length holds a published object whose id is i
C6_IdsDense ==
    /\ 0 \notin ValidTypeIds
    /\ 0 \notin ValidFunctionIds
    /\ \A i \in 1..(Len(loadedTypes) - 1) :
          At(loadedTypes, i) # Null /\ types[At(loadedTypes, i)].TypeId = i
    /\ \A i \in 1..(Len(loadedFunctions) - 1) :
          At(loadedFunctions, i) # Null /\ funcs[At(loadedFunctions, i)].FunctionId = i

----------------------------------------------------------------------------
(* Instantiations written out in full, for the properties about template    *)
(* graphs: (assembly, id, arguments) where the arguments are instantiations *)
(* themselves, computed from the templates alone.                           *)

\* longest chain of fields followed when looking for a cycle
MaxChain == 3

Inst(a, id, as) == [Assembly |-> a, Id |-> id, Arguments |-> as]

NoInst == Inst("", 0, <<>>)

\* the instantiation a loaded handle stands for
RECURSIVE InstOf(_)
InstOf(h) ==
    Inst(types[h].Args.Assembly, types[h].Args.Id,
         [k \in 1..Len(types[h].Args.Arguments) |-> InstOf(types[h].Args.Arguments[k])])

\* the instantiation a request asks for
InstOfArgs(args) ==
    Inst(args.Assembly, args.Id,
         [k \in 1..Len(args.Arguments) |-> InstOf(args.Arguments[k])])

TemplateOf(x) ==
    LET a == FindAssemblyNoThrow(AssemblyList(assemblies), x.Assembly)
    IN AssemblyList(assemblies)[a].Types[x.Id + 1]

HasTemplate(x) ==
    LET a == FindAssemblyNoThrow(AssemblyList(assemblies), x.Assembly)
    IN a # Null /\ x.Id < Len(AssemblyList(assemblies)[a].Types)

\* the instantiation entry i of the type reference list of self's template
\* denotes (NoInst: none, or an import)
RECURSIVE RefInst(_, _)
RECURSIVE RefInstArgs(_, _)
RefInst(self, i) ==
    LET g == TemplateOf(self)
    IN IF i >= Len(g.Types) THEN NoInst
       ELSE CASE At(g.Types, i).Type = "REF_ASSEMBLY" ->
                    Inst(self.Assembly, At(g.Types, i).Index, RefInstArgs(self, i + 1))
              [] At(g.Types, i).Type = "REF_ARGUMENT" ->
                    IF At(g.Types, i).Index < Len(self.Arguments)
                    THEN At(self.Arguments, At(g.Types, i).Index) ELSE NoInst
              [] At(g.Types, i).Type = "REF_CLONE" ->
                    IF At(g.Types, i).Index < Len(g.Types)
                    THEN RefInst(self, At(g.Types, i).Index) ELSE NoInst
              [] OTHER -> NoInst

RefInstArgs(self, i) ==
    LET g == TemplateOf(self)
    IN IF i >= Len(g.Types) \/ At(g.Types, i).Type = "REF_EMPTY" THEN <<>>
       ELSE <<RefInst(self, i)>> \o RefInstArgs(self, i + 1)

\* the instantiations of the fields of x, in declaration order
FieldInsts(x) ==
    [k \in 1..Len(TemplateOf(x).Fields) |-> RefInst(x, TemplateOf(x).Fields[k])]

IsValueInst(x) == x # NoInst /\ HasTemplate(x) /\ TemplateOf(x).GCMode = "TSM_VALUE"

\* x holds target through a chain of at most n fields, every type on the way
\* (target apart) satisfying the storage test byValue asks for
RECURSIVE Holds(_, _, _, _)
Holds(x, target, n, byValue) ==
    /\ n > 0
    /\ \E k \in 1..Len(FieldInsts(x)) :
          LET f == FieldInsts(x)[k]
          IN /\ f # NoInst /\ HasTemplate(f)
             /\ byValue => IsValueInst(f)
             /\ f = target \/ Holds(f, target, n - 1, byValue)

\* a value-typed type that contains itself through a chain of value-typed fields
InValueCycle(args) ==
    /\ IsValueInst(InstOfArgs(args))
    /\ Holds(InstOfArgs(args), InstOfArgs(args), MaxChain, TRUE)

\* a reference-storage type with a field that leads back to the same instantiation
InReferenceCycle(args) ==
    /\ HasTemplate(InstOfArgs(args))
    /\ TemplateOf(InstOfArgs(args)).GCMode = "TSM_REF"
    /\ Holds(InstOfArgs(args), InstOfArgs(args), MaxChain, FALSE)

\* the direct case: the single field is the type itself
DirectSelfReference(args) ==
    /\ InReferenceCycle(args)
    /\ FieldInsts(InstOfArgs(args)) = <<InstOfArgs(args)>>

\* the message LoadFields throws for a cyclic value-type dependence
CircularError == "Cyclic type dependence"

HookErrors == {"OnTypeLoaded failed", "OnFunctionLoaded failed"}

\* C8: GetType on a reference-storage type with a field referencing the same
\* instantiation (directly or through other types) succeeds; in the direct
\* case the single field has offset 0, the length of a pointer, and its type
\* handle is the handle returned for the request
C8_ReferenceCycleLoads ==
    (lastCall.op = "GetType" /\ InReferenceCycle(lastCall.args)
                             /\ lastCall.err \notin HookErrors)
       => /\ lastCall.ret # Null
          /\ lastCall.err = ""
          /\ DirectSelfReference(lastCall.args)
                => types[lastCall.ret].Fields =
                      <<[Type |-> lastCall.ret, Offset |-> 0, Length |-> PtrSize]>>

----------------------------------------------------------------------------
(* Layout *)

\* the handles registered by AddNativeType: their size and alignment come
\* from the caller, every other loaded type is laid out by LoadFields
NativeHandles == {h.handle : h \in {x \in held : x.op = "AddNativeType"}}

FieldLength(f) == IF types[f.Type].Storage = "TSM_REF" THEN PtrSize ELSE types[f.Type].Size

FieldAlignment(f) ==
    IF types[f.Type].Storage = "TSM_REF" THEN PtrSize ELSE types[f.Type].Alignment

\* off is prev rounded up to a multiple of alignment
RoundedUp(off, prev, alignment) ==
    /\ off >= prev
    /\ off - prev < alignment
    /\ off % alignment = 0

MaxOf(S) == CHOOSE m \in S : \A x \in S : x <= m

\* the layout rule for the loaded type h
LaidOut(h) ==
    LET fs == types[h].Fields
        end(k) == IF k = 0 THEN 0 ELSE fs[k].Offset + fs[k].Length
    IN /\ Len(fs) = Len(TemplateOf(types[h].Args).Fields)
       /\ \A k \in 1..Len(fs) :
             /\ fs[k].Length = FieldLength(fs[k])
             /\ RoundedUp(fs[k].Offset, end(k - 1), FieldAlignment(fs[k]))
       /\ types[h].Size = MaxOf({end(Len(fs)), 1})
       /\ types[h].Alignment = MaxOf({FieldAlignment(fs[k]) : k \in 1..Len(fs)} \cup {1})

\* C9: for every type laid out by the pipeline, fields are placed in
\* declaration order, each offset is the previous end rounded up to the
\* field's alignment, a reference field takes (pointer size, pointer size) and
\* a value field its type's (size, alignment), the size is max(end of last
\* field, 1) and the alignment the maximum field alignment, or 1 without fields
C9_LayoutRule == \A h \in Handles \ NativeHandles : LaidOut(h)

IsPowerOfTwo(n) == n >= 1 /\ \A d \in 2..n : n % d = 0 => d % 2 = 0

\* C10: every type in the loaded table, produced by GetType or registered by
\* AddNativeType, has size >= 1 and an alignment that is a power of two
C10_SizeAndAlignment ==
    \A h \in Handles : types[h].Size >= 1 /\ IsPowerOfTwo(types[h].Alignment)

\* the handle a request passes for field k of its type: the generic argument
\* the field's entry of the type reference list names (Null: the field is not
\* an argument of the request)
FieldArgument(h, k) ==
    LET g == TemplateOf(types[h].Args)
        ref == At(g.Types, g.Fields[k])
    IN IF g.Fields[k] < Len(g.Types) /\ ref.Type = "REF_ARGUMENT"
          /\ ref.Index < Len(types[h].Args.Arguments)
       THEN At(types[h].Args.Arguments, ref.Index) ELSE Null

\* the loaded handle n was registered by AddNativeType with (size, alignment)
IsNative(n, size, alignment) ==
    /\ n \in NativeHandles
    /\ types[n].Size = size
    /\ types[n].Alignment = alignment

\* a loaded value-typed type of two fields, the first a native type of
\* (size 4, alignment 4) and the second a native type of (size 1, alignment 1)
IsI32I8Pair(h) ==
    /\ h \notin NativeHandles
    /\ types[h].Storage = "TSM_VALUE"
    /\ Len(TemplateOf(types[h].Args).Fields) = 2
    /\ FieldArgument(h, 1) # Null /\ IsNative(FieldArgument(h, 1), 4, 4)
    /\ FieldArgument(h, 2) # Null /\ IsNative(FieldArgument(h, 2), 1, 1)

\* C11: a value-typed type with two fields, the first of a native type with
\* (size 4, alignment 4) and the second of a native type with (size 1,
\* alignment 1), is loaded with size 8, alignment 4 and field offsets 0 and 4
C11_PairLayout ==
    \A h \in Handles :
        IsI32I8Pair(h)
           => /\ types[h].Size = 8
              /\ types[h].Alignment = 4
              /\ Len(types[h].Fields) = 2
              /\ types[h].Fields[1].Offset = 0
              /\ types[h].Fields[2].Offset = 4

\* C11 as the layout loop computes it: such a type is loaded with size 5 (the
\* end of its last field), alignment 4 and field offsets 0 and 4
C11_PairLayoutUnpadded ==
    \A h \in Handles :
        IsI32I8Pair(h)
           => /\ types[h].Size = 5
              /\ types[h].Alignment = 4
              /\ Len(types[h].Fields) = 2
              /\ types[h].Fields[1].Offset = 0
              /\ types[h].Fields[2].Offset = 4

\* GetType has returned such a pair
C11_Witness ==
    /\ lastCall.op = "GetType"
    /\ lastCall.ret # Null
    /\ lastCall.ret \in Handles
    /\ IsI32I8Pair(lastCall.ret)

----------------------------------------------------------------------------
(* Initializers and finalizers *)

\* the function template entry i of the function reference list of the type
\* template tt in assembly a names directly (REF_ASSEMBLY)
NamesFunction(tt, i) ==
    i < Len(tt.Functions) /\ At(tt.Functions, i).Type = "REF_ASSEMBLY"

FunctionTemplateOf(a, tt, i) ==
    AssemblyList(assemblies)[FindAssemblyNoThrow(AssemblyList(assemblies), a)]
        .Functions[At(tt.Functions, i).Index + 1]

\* the function template ft declares a return value
ReturnsValue(ft) == At(ft.Types, ft.ReturnValue).Type # "REF_EMPTY"

\* the only parameter of the function template ft is the type id of assembly a
TakesOnly(ft, id) ==
    /\ Len(ft.Params) = 1
    /\ At(ft.Types, ft.Params[1]) = Ref("REF_ASSEMBLY", id)

\* the type a request names breaks a rule on initializers and finalizers: it
\* declares an initializer without being of global storage or a finalizer
\* without being of reference storage, or its initializer takes a parameter or
\* returns a value, or its finalizer returns a value or does not take exactly
\* the type itself
BreaksWiring(args) ==
    /\ HasTemplate(args)
    /\ LET tt == TemplateOf(args)
           init == FunctionTemplateOf(args.Assembly, tt, tt.Initializer)
           fin == FunctionTemplateOf(args.Assembly, tt, tt.Finalizer)
       IN /\ tt.Parameters = 0 /\ Len(args.Arguments) = 0
          /\ \/ NamesFunction(tt, tt.Initializer) /\ tt.GCMode # "TSM_GLOBAL"
             \/ NamesFunction(tt, tt.Finalizer) /\ tt.GCMode # "TSM_REF"
             \/ /\ NamesFunction(tt, tt.Initializer)
                /\ Len(init.Params) # 0 \/ ReturnsValue(init)
             \/ /\ NamesFunction(tt, tt.Finalizer)
                /\ ReturnsValue(fin) \/ ~TakesOnly(fin, args.Id)

\* the rules as the published type h meets them
WiredWell(h) ==
    /\ types[h].Initializer # Null
          => /\ types[h].Storage = "TSM_GLOBAL"
             /\ funcs[types[h].Initializer].ReturnValue = Null
             /\ Len(funcs[types[h].Initializer].Parameters) = 0
    /\ types[h].Finalizer # Null
          => /\ types[h].Storage = "TSM_REF"
             /\ funcs[types[h].Finalizer].ReturnValue = Null
             /\ funcs[types[h].Finalizer].Parameters = <<h>>

\* C12: every published type has an initializer only if its storage is global
\* and a finalizer only if its storage is reference, its initializer has no
\* parameters and no return value, its finalizer has no return value and
\* exactly one parameter, which is the type itself; a GetType request on a type
\* that breaks one of these rules fails
C12_InitializerFinalizerRules ==
    /\ \A h \in Handles : WiredWell(h)
    /\ (lastCall.op = "GetType" /\ BreaksWiring(lastCall.args))
          => lastCall.ret = Null /\ lastCall.err # ""

\* a type with an initializer or a finalizer is published, and the last
\* request, on a type that breaks a rule, was refused
C12_Witness ==
    /\ \E h \in Handles : types[h].Initializer # Null \/ types[h].Finalizer # Null
    /\ lastCall.op = "GetType"
    /\ BreaksWiring(lastCall.args)
    /\ lastCall.err \in {"Invalid initializer", "Invalid finalizer",
                         "Only global type can have initializer",
                         "Only reference type can have finalizer"}

----------------------------------------------------------------------------
(* Pointer types *)

\* _pointerTypeId of the loader
pointerTypeId == PointerTypeId(AssemblyList(assemblies))

\* IsPointerType
IsPointerType(t) == types[t].Args.Assembly = "Core" /\ types[t].Args.Id = pointerTypeId

\* the LoadingArguments of the canonical Core.Pointer template over element t
PointerArgs(t) == LoadingArgs("Core", pointerTypeId, <<t>>)

\* a request on the canonical Core.Pointer template with one argument
IsPointerRequest(args) ==
    /\ pointerTypeId # SIZE_MAX
    /\ Len(args.Arguments) = 1
    /\ args = PointerArgs(args.Arguments[1])

\* C13: after a successful GetType on the canonical Core.Pointer template with
\* arguments [t], IsPointerType(result) is true and t.PointerType is the
\* result, and every GetType with the same arguments has returned this handle
C13_PointerBackReference ==
    (lastCall.op = "GetType" /\ IsPointerRequest(lastCall.args) /\ lastCall.ret # Null)
       => /\ IsPointerType(lastCall.ret)
          /\ types[lastCall.args.Arguments[1]].PointerType = lastCall.ret
          /\ \A h \in held :
                (h.op = "GetType" /\ h.args = lastCall.args) => h.handle = lastCall.ret

\* GetType on Core.Pointer has succeeded for the second time with the same
\* arguments
C13_Witness ==
    /\ lastCall.op = "GetType"
    /\ IsPointerRequest(lastCall.args)
    /\ lastCall.ret # Null
    /\ lastCall.again

\* what GetType(args) does in the environment env, from the present state
GetTypeLocked(env, args) ==
    IF FindByArgs(types, loadedTypes, args) # Null
    THEN Ok(Loader(env), FindByArgs(types, loadedTypes, args))
    ELSE LoadTypeNoLock(Loader(env), args)

\* the members Install(s) leaves, in the order of loaderVars
Installed(s) ==
    <<s.loadedTypes, s.loadedFunctions, s.codeStorage, s.types, s.funcs,
      s.loadingTypes, s.loadingRefTypes, s.postLoadingTypes, s.loadingFunctions,
      s.finishedLoadingTypes, s.finishedLoadingFunctions, s.nextTypeId,
      s.nextFunctionId>>

\* the step ends as the call that gave x ends: the same handle, the same
\* error and the same loader, or the same signal
SameOutcome(x) ==
    IF x.e \in Signals
    THEN crashed' /\ lastCall'.err = x.e /\ UNCHANGED loaderVars
    ELSE /\ ~crashed'
         /\ lastCall'.ret = x.r
         /\ lastCall'.err = x.e
         /\ loaderVars' = Installed(x.s)

\* C14: for every loaded type t, whether its pointer type is loaded or not,
\* LoadPointerType(t) ends as GetType on (Core, Core.Pointer id, [t]) ends in
\* some environment: same handle, same error, same resulting loader
C14_LoadPointerTypeIsGetType ==
    [][lastCall'.op = "LoadPointerType"
          => \E env \in Envs :
                SameOutcome(GetTypeLocked(env, PointerArgs(lastCall'.args.Arguments[1])))]_vars

\* C14 for the types LoadPointerType asserts it is called on: for every loaded
\* type t whose PointerType is null, LoadPointerType(t) ends as GetType on
\* (Core, Core.Pointer id, [t]) ends
C14_LoadPointerTypeOfFreshElement ==
    [][(lastCall'.op = "LoadPointerType"
            /\ types[lastCall'.args.Arguments[1]].PointerType = Null)
          => \E env \in Envs :
                SameOutcome(GetTypeLocked(env, PointerArgs(lastCall'.args.Arguments[1])))]_vars

\* LoadPointerType has loaded a pointer type, which its element now refers to
C14_Witness ==
    /\ lastCall.op = "LoadPointerType"
    /\ lastCall.ret # Null
    /\ types[lastCall.args.Arguments[1]].PointerType = lastCall.ret
    /\ \A h \in held : h.handle = lastCall.ret => h.op = "LoadPointerType"

\* the PointerType of the loaded type h is null or a loaded type that is the
\* Core.Pointer instantiation over h
PointerTypeSound(h) ==
    \/ types[h].PointerType = Null
    \/ /\ types[h].PointerType \in Handles
       /\ types[types[h].PointerType].Args = PointerArgs(h)

\* C15: in every state reachable by API calls, failed requests included, the
\* PointerType of each loaded type is null or a type of the loaded table whose
\* LoadingArguments are (Core, Core.Pointer id, [that type]); at most one
\* loaded type is the pointer instantiation of an element type; and a call
\* never changes or clears a PointerType that is set
C15_PointerTypeInvariant ==
    [][/\ \A h \in Handles' : PointerTypeSound(h)'
       /\ \A p, q \in Handles' :
             (IsPointerType(p)' /\ types'[p].Args = types'[q].Args) => p = q
       /\ \A h \in Handles :
             types[h].PointerType # Null
                => types'[h].PointerType = types[h].PointerType]_vars

\* ---------------------------------------------------------------------------
\* Native types and lookups by id
\* ---------------------------------------------------------------------------

\* the native export `name` of the assembly exists and names a template of the
\* assembly without generic parameters, value-typed, with neither initializer
\* nor finalizer
NativeTemplateOk(assemblyName, name) ==
    LET al == AssemblyList(assemblies)
        a == FindAssemblyNoThrow(al, assemblyName)
        e == FindExport(al[a].NativeTypes, name)
        id == al[a].NativeTypes[e].InternalId
        type == At(al[a].Types, id)
    IN /\ a # Null
       /\ e # Null
       /\ id < Len(al[a].Types)
       /\ type.Parameters = 0
       /\ type.GCMode = "TSM_VALUE"
       /\ type.Finalizer < Len(type.Functions)
       /\ At(type.Functions, type.Finalizer).Type = "REF_EMPTY"
       /\ type.Initializer < Len(type.Functions)
       /\ At(type.Functions, type.Initializer).Type = "REF_EMPTY"

\* C16: AddNativeType publishes a type only when the named native export
\* exists and its template has no generic parameter, is value-typed and has
\* neither initializer nor finalizer; the new type then has the given size and
\* alignment and is in the loaded table at its id; in every other case the
\* call returns null with an error and leaves the loaded table and the id
\* counter as they were
C16_AddNativeTypeContract ==
    [][lastCall'.op = "AddNativeType" =>
         IF NativeTemplateOk(lastCall'.args.Assembly, lastCall'.name)
         THEN /\ ~crashed'
              /\ lastCall'.ret # Null
              /\ lastCall'.err = ""
              /\ types'[lastCall'.ret].Size = lastCall'.size
              /\ types'[lastCall'.ret].Alignment = lastCall'.alignment
              /\ types'[lastCall'.ret].TypeId < Len(loadedTypes')
              /\ At(loadedTypes', types'[lastCall'.ret].TypeId) = lastCall'.ret
         ELSE /\ ~crashed'
              /\ lastCall'.ret = Null
              /\ lastCall'.err # ""
              /\ loadedTypes' = loadedTypes
              /\ nextTypeId' = nextTypeId]_vars

\* C17: GetTypeById(id) and GetFunctionById(id) return the published object
\* whose id is id when there is one and null for every other id (0, the table
\* length, larger ids, ids of failed requests), and never read outside the
\* loaded table
C17_LookupById ==
    /\ lastCall.op = "GetTypeById" =>
          /\ ~crashed
          /\ lastCall.ret =
                IF \E h \in Handles : types[h].TypeId = lastCall.args.Id
                THEN CHOOSE h \in Handles : types[h].TypeId = lastCall.args.Id
                ELSE Null
    /\ lastCall.op = "GetFunctionById" =>
          /\ ~crashed
          /\ lastCall.ret =
                IF \E k \in 1..Len(loadedFunctions) :
                      /\ loadedFunctions[k] # Null
                      /\ funcs[loadedFunctions[k]].FunctionId = lastCall.args.Id
                THEN CHOOSE f \in {loadedFunctions[k] : k \in 1..Len(loadedFunctions)} \ {Null} :
                        funcs[f].FunctionId = lastCall.args.Id
                ELSE Null

\* ---------------------------------------------------------------------------
\* Hooks and publication
\* ---------------------------------------------------------------------------

HookCalls == {"OnTypeLoaded", "OnFunctionLoaded"}

\* the hook that is called on the object of a publication
HookOf(call) == IF call = "AddLoadedType" THEN "OnTypeLoaded" ELSE "OnFunctionLoaded"

LoadedFunctionHandles == {loadedFunctions[i] : i \in 1..Len(loadedFunctions)} \ {Null}

\* the objects that the events `call` of the sequence of events l are about
ObjectsOf(l, call) == {l[k].object : k \in {i \in 1..Len(l) : l[i].call = call}}

\* C18: within one request, OnTypeLoaded / OnFunctionLoaded is called exactly
\* once for every finished object, every call of a hook comes before any
\* object of the request enters the loaded tables, and when a hook or a final
\* check throws no object of the request is published
C18_HooksBeforePublication ==
    [][lastCall'.op \in {"GetType", "GetFunction"} =>
         /\ \A i, j \in 1..Len(log') :
               (log'[i].call \notin HookCalls /\ log'[j].call \in HookCalls) => j < i
         /\ \A i, j \in 1..Len(log') : log'[i] = log'[j] => i = j
         /\ \A i \in 1..Len(log') :
               log'[i].call \notin HookCalls =>
                  \E j \in 1..Len(log') : log'[j] = [call |-> HookOf(log'[i].call),
                                                     object |-> log'[i].object]
         /\ Handles' \ Handles = ObjectsOf(log', "AddLoadedType")
         /\ LoadedFunctionHandles' \ LoadedFunctionHandles
               = ObjectsOf(log', "AddLoadedFunction")
         /\ lastCall'.err = "" =>
               /\ ObjectsOf(log', "OnTypeLoaded") = ObjectsOf(log', "AddLoadedType")
               /\ ObjectsOf(log', "OnFunctionLoaded") = ObjectsOf(log', "AddLoadedFunction")
         /\ lastCall'.err # "" =>
               /\ ObjectsOf(log', "AddLoadedType") = {}
               /\ ObjectsOf(log', "AddLoadedFunction") = {}
               /\ Handles' = Handles
               /\ LoadedFunctionHandles' = LoadedFunctionHandles]_vars

\* a request has published a type and a function, each after its hook
C18_Witness ==
    /\ lastCall.op = "GetFunction"
    /\ lastCall.err = ""
    /\ ObjectsOf(log, "AddLoadedType") # {}
    /\ ObjectsOf(log, "AddLoadedFunction") # {}
    /\ log[1].call \in HookCalls

\* ---------------------------------------------------------------------------
\* Concurrency
\* ---------------------------------------------------------------------------

\* the threads whose call is between the lock and the unlock of _loaderLock
Inside == {th \in Threads : threads[th].pc \in {"held", "load", "unlock"}}

QueuesEmpty ==
    /\ loadingTypes = <<>>
    /\ loadingRefTypes = <<>>
    /\ postLoadingTypes = <<>>
    /\ loadingFunctions = <<>>
    /\ finishedLoadingTypes = <<>>
    /\ finishedLoadingFunctions = <<>>

\* at most one call is inside the loader, and it holds the lock
OneInside ==
    /\ Cardinality(Inside) <= 1
    /\ \A th \in Inside : loaderLock = th
    /\ loaderLock # Null => loaderLock \in Inside

\* a step that writes the loaded tables, or that gives a thread what it has
\* read in them, is a step of the thread that holds the lock
TablesUnderLock ==
    \A th \in Threads :
       (\/ threads'[th].call.ret # threads[th].call.ret
        \/ (threads'[th].pc # threads[th].pc /\ threads[th].pc \in {"held", "load"})
        \/ (loadedTypes' # loadedTypes /\ threads'[th] # threads[th])
        \/ (loadedFunctions' # loadedFunctions /\ threads'[th] # threads[th]))
       => (loaderLock = th /\ loaderLock' = th) \/ threads[th].pc = "idle"

\* the loaded entries whose LoadingArguments are args
LoadedWith(args) ==
    {k \in 1..Len(loadedTypes) : loadedTypes[k] # Null /\ types[loadedTypes[k]].Args = args}

\* two GetType calls with equal arguments that were in progress together have
\* both returned, neither of them failed by a hook or a check
ReturnedTogether(th, o) ==
    /\ th # o
    /\ threads[th].call.err = "" /\ threads[o].call.err = ""
    /\ threads[th].pc = "idle" /\ threads[o].pc = "idle"
    /\ threads[th].overlap /\ threads[o].overlap
    /\ threads[th].call.op = "GetType" /\ threads[o].call.op = "GetType"
    /\ threads[th].call.args = threads[o].call.args

\* both calls returned the same handle, and the loaded table has one entry
\* with their arguments
SameHandleOnce(th, o) ==
    /\ threads[th].call.ret = threads[o].call.ret
    /\ threads[th].call.ret # Null =>
          Cardinality(LoadedWith(threads[th].call.args)) = 1

\* C19: for every interleaving of concurrent GetType, GetFunction,
\* GetTypeById, GetFunctionById and AddNativeType calls, at most one call is
\* inside the loader at a time, the loaded tables are read and written only
\* while the lock is held, all loading queues are empty whenever the lock is
\* free, and two concurrent GetType calls with equal arguments return the
\* same handle with a single loaded entry
C19_Serialized ==
    [][/\ OneInside'
       /\ TablesUnderLock
       /\ loaderLock' = Null => QueuesEmpty'
       /\ \A th, o \in Threads :
             ReturnedTogether(th, o)' => SameHandleOnce(th, o)']_vars

\* ---------------------------------------------------------------------------
\* Import resolution
\* ---------------------------------------------------------------------------

\* the generic parameter count of the template that the resolution names
ResolvedArity ==
    LET a == FindAssemblyNoThrow(ReExportBundle, resolution.result.Assembly)
    IN At(ReExportBundle[a][resolution.kind].Templates, resolution.result.Id)

\* C20: resolving a type, function or trait import follows re-exports down to
\* the defining template, and when the import record being resolved gives a
\* generic-parameter arity the resolution succeeds only if the template
\* finally resolved has that arity, also when it is reached through
\* re-exports
C20_ImportArity ==
    resolution.found =>
       LET a == FindAssemblyNoThrow(ReExportBundle, resolution.result.Assembly)
       IN /\ a # Null
          /\ resolution.result.Id < Len(ReExportBundle[a][resolution.kind].Templates)
          /\ resolution.import.GenericParameters # SIZE_MAX
                => ResolvedArity = resolution.import.GenericParameters

\* the value of the constant that assembly a exports as n, re-exports followed
\* down to the assembly that defines the constant
RECURSIVE ConstantValue(_, _)
ConstantValue(assemblyName, n) ==
    LET a == FindAssemblyNoThrow(ConstantBundle, assemblyName)
        e == FindExport(ConstantBundle[a].ExportConstants, n)
        id == ConstantBundle[a].ExportConstants[e].InternalId
    IN IF <<assemblyName, n>> \in ConstantReExports
       THEN ConstantValue(At(ConstantBundle[a].ImportConstants, id).AssemblyName,
                          At(ConstantBundle[a].ImportConstants, id).ImportName)
       ELSE id

\* C21: FindExportConstant follows re-exports as the type, function and trait
\* lookups do: a constant export name that is a re-export of another
\* assembly's constant resolves to the value of that assembly's constant
C21_ConstantReExport ==
    (resolution.kind = "Constant" /\ resolution.found) =>
        resolution.value = ConstantValue(resolution.import.AssemblyName,
                                         resolution.import.ImportName)

----------------------------------------------------------------------------
(* Generic declarations (GenericDeclaration.h) and the reference lists of  *)
(* a declaration: calls on one declaration, outside any loading request.   *)
(* The calls are functions of their arguments, so a behaviour makes one    *)
(* call, on arguments of its choice.                                       *)

\* segments of a declaration's ParameterCount and of an argument list are
\* drawn with at most this many segments
MaxSegments == 2

\* declared sizes of a segment run up to this value, lengths of an argument
\* segment up to one more
MaxSize == 2

\* reference lists are drawn with at most this many entries
MaxRefs == 3

\* RuntimeLoaderException: the error code (none in RuntimeLoader.h) and the message
Error(code, msg) == [code |-> code, msg |-> msg]

NoError == Error("", "")

RECURSIVE SeqsUpTo(_, _)
SeqsUpTo(S, n) ==
    IF n = 0 THEN {<<>>}
    ELSE LET shorter == SeqsUpTo(S, n - 1)
         IN shorter \cup {Append(q, x) : q \in {t \in shorter : Len(t) = n - 1}, x \in S}

SegmentSizes == [Size : 0..MaxSize, IsVariable : BOOLEAN]

\* GenericDefArgumentListSize::IsEmpty
IsEmpty(Segments) == Len(Segments) = 0

\* GenericDefArgumentListSize::CanMatch
CanMatch(Segments, size) ==
    IF Len(size) = 1 /\ At(size, 0) = 0
    THEN IF IsEmpty(Segments) THEN TRUE
         ELSE IF /\ Len(Segments) = 1
                 /\ At(Segments, 0).Size = 0
                 /\ ~At(Segments, 0).IsVariable
              THEN TRUE
              ELSE FALSE
    ELSE IF Len(Segments) # Len(size) THEN FALSE
    ELSE \A i \in 0..(Len(size) - 1) :
            IF At(Segments, i).IsVariable
            THEN ~(At(size, i) < At(Segments, i).Size)
            ELSE ~(At(size, i) # At(Segments, i).Size)

\* a caller asks whether an argument list of the given segment lengths
\* matches a declaration
CallCanMatch(Segments, size) ==
    /\ declCall = NoDeclCall
    /\ declCall' = [op |-> "CanMatch", Segments |-> Segments, size |-> size,
                    result |-> CanMatch(Segments, size)]
    /\ UNCHANGED <<loaderVars, lastCall, held, crashed, log, assemblies, loaderLock, threads, resolution, solver>>

\* The loop that follows REF_CLONE entries of a reference list from entry i
\* to the entry that is evaluated.  The loop keeps no record of the entries it
\* has been at: on a chain that comes back to an entry it runs for ever.
\* `seen' is the set of entries the loop has been at, kept here to tell that
\* case.  error is what the loader that runs the loop throws for an index
\* outside the list.
RECURSIVE FollowClone(_, _, _, _)
FollowClone(list, i, seen, error) ==
    IF At(list, i).Type # "REF_CLONE" THEN [outcome |-> "entry", index |-> i, error |-> NoError]
    ELSE IF At(list, i).Index >= Len(list)
         THEN [outcome |-> "throw", index |-> i, error |-> error]
    ELSE IF At(list, i).Index \in seen
         THEN [outcome |-> "never returns", index |-> i, error |-> NoError]
    ELSE FollowClone(list, At(list, i).Index, seen \cup {At(list, i).Index}, error)

\* RuntimeLoader::LoadRefType, up to the entry it evaluates
LoadRefTypeClone(Types, typeId) ==
    IF typeId >= Len(Types)
    THEN [outcome |-> "throw", index |-> typeId,
          error |-> Error("", "Invalid type reference")]
    ELSE FollowClone(Types, typeId, {typeId}, Error("", "Invalid type reference"))

\* RuntimeLoaderConstraint::ConstructConstraintRefListType, up to the entry
\* it evaluates
ConstructConstraintRefListTypeClone(Types, i) ==
    IF i >= Len(Types)
    THEN [outcome |-> "throw", index |-> i,
          error |-> Error("ERR_L_PROGRAM", "Invalid type reference")]
    ELSE FollowClone(Types, i, {i}, Error("ERR_L_PROGRAM", "Invalid type reference"))

\* RuntimeLoaderConstraint::LoadTraitFunctionCacheInfo, up to the function
\* entry it evaluates
LoadTraitFunctionCacheInfoClone(Functions, id) ==
    IF id >= Len(Functions)
    THEN [outcome |-> "throw", index |-> id,
          error |-> Error("ERR_L_PROGRAM", "Invalid function reference")]
    ELSE FollowClone(Functions, id, {id},
                     Error("ERR_L_PROGRAM", "Invalid function reference"))

RefEntries == {Ref(t, i) : t \in {"REF_CLONE", "REF_EMPTY", "REF_ASSEMBLY"},
                           i \in 0..MaxRefs}

RefLists == SeqsUpTo(RefEntries, MaxRefs) \ {<<>>}

\* a type is loaded whose field or argument is entry typeId of the type
\* reference list of its declaration
EvaluateTypeRef(Types, typeId) ==
    /\ declCall = NoDeclCall
    /\ declCall' = [op |-> "LoadRefType", list |-> Types, index |-> typeId,
                    result |-> LoadRefTypeClone(Types, typeId)]
    /\ UNCHANGED <<loaderVars, lastCall, held, crashed, log, assemblies, loaderLock, threads, resolution, solver>>

\* a constraint is checked whose argument is entry i of the type reference
\* list of the constraint
EvaluateConstraintRef(Types, i) ==
    /\ declCall = NoDeclCall
    /\ declCall' = [op |-> "ConstructConstraintRefListType", list |-> Types,
                    index |-> i,
                    result |-> ConstructConstraintRefListTypeClone(Types, i)]
    /\ UNCHANGED <<loaderVars, lastCall, held, crashed, log, assemblies, loaderLock, threads, resolution, solver>>

\* a trait function is resolved that is entry id of the function reference
\* list of the target's declaration
EvaluateFunctionRef(Functions, id) ==
    /\ declCall = NoDeclCall
    /\ declCall' = [op |-> "LoadTraitFunctionCacheInfo", list |-> Functions,
                    index |-> id,
                    result |-> LoadTraitFunctionCacheInfoClone(Functions, id)]
    /\ UNCHANGED <<loaderVars, lastCall, held, crashed, log, assemblies, loaderLock, threads, resolution, solver>>

InitDeclarations == assemblies = "Layout" /\ Start

NextDeclarations ==
    \/ \E Segments \in SeqsUpTo(SegmentSizes, MaxSegments),
          size \in SeqsUpTo(0..(MaxSize + 1), MaxSegments) :
            CallCanMatch(Segments, size)
    \/ \E list \in RefLists : \E i \in 0..Len(list) : EvaluateTypeRef(list, i)
    \/ \E list \in RefLists : \E i \in 0..Len(list) : EvaluateConstraintRef(list, i)
    \/ \E list \in RefLists : \E i \in 0..Len(list) : EvaluateFunctionRef(list, i)

SpecDeclarations == InitDeclarations /\ [][NextDeclarations]_vars

\* the entries the clone chain of entry i passes, entry i first, as long as
\* the chain stays inside the list (at most n more entries)
RECURSIVE CloneChain(_, _, _)
CloneChain(list, i, n) ==
    IF i >= Len(list) \/ At(list, i).Type # "REF_CLONE" \/ n = 0 THEN <<i>>
    ELSE <<i>> \o CloneChain(list, At(list, i).Index, n - 1)

\* the clone chain of entry i comes back to an entry it has passed
CyclicClone(list, i) ==
    LET chain == CloneChain(list, i, Len(list))
    IN \E j, k \in 1..Len(chain) : j < k /\ chain[j] = chain[k]

\* C22: evaluating a reference list entry whose REF_CLONE chain is cyclic, in
\* a type, function or constraint reference list, returns, and it returns by
\* throwing a program error (ERR_L_PROGRAM)
C22_CloneCycleIsProgramError ==
    (/\ declCall.op \in {"LoadRefType", "ConstructConstraintRefListType",
                         "LoadTraitFunctionCacheInfo"}
     /\ CyclicClone(declCall.list, declCall.index))
        => /\ declCall.result.outcome = "throw"
           /\ declCall.result.error.code = "ERR_L_PROGRAM"

\* what the claim's rule gives for a declaration and the segment lengths of an
\* argument list
SegmentsMatch(Segments, size) ==
    \/ /\ Len(size) = Len(Segments)
       /\ \A i \in 1..Len(size) :
            IF Segments[i].IsVariable THEN size[i] >= Segments[i].Size
            ELSE size[i] = Segments[i].Size
    \/ Segments = <<>> /\ size = <<0>>

\* C28: CanMatch(sizes) is true exactly when sizes has as many segments as the
\* declaration and every segment's length equals the declared size, or is at
\* least the declared size when the segment is variable; an empty declaration
\* matches a single empty segment as well
C28_CanMatch ==
    declCall.op = "CanMatch" =>
        (declCall.result <=> SegmentsMatch(declCall.Segments, declCall.size))

----------------------------------------------------------------------------
(* Constraint checking (RuntimeLoaderConstraint.h).                        *)
(*                                                                         *)
(* The state of a check is the record s: the heap of ConstraintType        *)
(* objects (s.nodes; a ConstraintType* is an index of it, and copying a    *)
(* ConstraintType allocates a copy of the whole tree), the heap of         *)
(* ConstraintCalculationCache objects (s.caches) and the fields of the     *)
(* ConstraintCalculationCacheRoot.  An operation takes s and returns       *)
(* [s, r, e] as the loader operations do: the state after it, its result,  *)
(* and the exception it threw ("" for none; "abort" for a failed assert    *)
(* in a build that compiles asserts in, s.asserts).                        *)
(*                                                                         *)
(* A type reference (an entry of a RefList together with the entries it    *)
(* refers to) is written as a tree: Ref(kind, index) entries become        *)
(* [k |-> kind, ...] records with the referred entries as sub-trees.       *)
(* Argument lists have one segment.  Names that the code takes apart       *)
(* (export names, the names of a NamesList) are sequences of characters.   *)

\* nullptr of RuntimeType*
NoType == "null"

\* --- type references, as trees ---
RefAny == [k |-> "REF_ANY"]
RefEmpty == [k |-> "REF_EMPTY"]
RefSelf == [k |-> "REF_SELF"]
RefArgument(i) == [k |-> "REF_ARGUMENT", Index |-> i]
RefAssembly(t, args) == [k |-> "REF_ASSEMBLY", Index |-> t, Args |-> args]
RefSubtype(n, parent) == [k |-> "REF_SUBTYPE", Name |-> n, Parent |-> parent]
RefTry(e) == [k |-> "REF_TRY", Entry |-> e]

\* --- the bundle the checks run on ---

\* a public function of a type template: its name, the number of type
\* arguments its reference takes beyond those of the type (REF_ARGUMENT
\* entries of a further segment), its return type and parameter types as
\* references over the type's arguments followed by the additional ones
PublicFunction(name, additional, ret) ==
    [Name |-> name, Additional |-> additional, ReturnType |-> ret,
     ParameterTypes |-> <<>>]

\* a public field of a type template: its name and its Id, the index of its
\* type in the Fields of the template
PublicField(name, id) == [Name |-> name, Id |-> id]

\* type templates by name: the public functions, the subtypes by name, the
\* argument lists the template's own constraints accept, the public fields
\* and the types of the fields.  Rec is a value type and Lazy a reference
\* type with the same members.
ConstraintTypeTemplates ==
    [t \in {"I32", "I64", "I8", "Box", "Two", "TwoTwo", "One", "Method", "Three",
               "Wide", "Rec", "Lazy"} |->
        CASE t = "Box" ->
                [PublicFunctions |-> <<>>, SubTypes |-> <<>>,
                 Accepts |-> {<<"I32">>},
                 PublicFields |-> <<>>, Fields |-> <<>>]
          [] t = "Two" ->
                \* two overloads of f
                [PublicFunctions |-> <<PublicFunction("f", 0, RefAssembly("I32", <<>>)),
                                       PublicFunction("f", 0, RefAssembly("I64", <<>>))>>,
                 SubTypes |-> <<[Name |-> "Item", Type |-> "I32"]>>,
                 Accepts |-> {<<>>},
                 PublicFields |-> <<>>, Fields |-> <<>>]
          [] t = "TwoTwo" ->
                \* two overloads of f, two of g
                [PublicFunctions |-> <<PublicFunction("f", 0, RefAssembly("I32", <<>>)),
                                       PublicFunction("f", 0, RefAssembly("I64", <<>>)),
                                       PublicFunction("g", 0, RefAssembly("I64", <<>>)),
                                       PublicFunction("g", 0, RefAssembly("I64", <<>>))>>,
                 SubTypes |-> <<>>, Accepts |-> {<<>>},
                 PublicFields |-> <<>>, Fields |-> <<>>]
          [] t = "One" ->
                [PublicFunctions |-> <<PublicFunction("f", 0, RefAssembly("I32", <<>>)),
                                       PublicFunction("g", 0, RefAssembly("I32", <<>>))>>,
                 SubTypes |-> <<>>, Accepts |-> {<<>>},
                 PublicFields |-> <<>>, Fields |-> <<>>]
          [] t = "Method" ->
                \* f, and a generic method m<U> that returns U
                [PublicFunctions |-> <<PublicFunction("f", 0, RefAssembly("I32", <<>>)),
                                       PublicFunction("m", 1, RefArgument(0))>>,
                 SubTypes |-> <<>>, Accepts |-> {<<>>},
                 PublicFields |-> <<>>, Fields |-> <<>>]
          [] t = "Three" ->
                \* three overloads of f, one g
                [PublicFunctions |-> <<PublicFunction("f", 0, RefAssembly("I8", <<>>)),
                                       PublicFunction("f", 0, RefAssembly("I32", <<>>)),
                                       PublicFunction("f", 0, RefAssembly("I64", <<>>)),
                                       PublicFunction("g", 0, RefAssembly("I64", <<>>))>>,
                 SubTypes |-> <<>>, Accepts |-> {<<>>},
                 PublicFields |-> <<>>, Fields |-> <<>>]
          [] t = "Wide" ->
                \* f and m of different return types
                [PublicFunctions |-> <<PublicFunction("f", 0, RefAssembly("I32", <<>>)),
                                       PublicFunction("m", 0, RefAssembly("I64", <<>>))>>,
                 SubTypes |-> <<>>, Accepts |-> {<<>>},
                 PublicFields |-> <<>>, Fields |-> <<>>]
          [] t \in {"Rec", "Lazy"} ->
                \* two overloads of f, the fields x (I32) and y (I64)
                [PublicFunctions |-> <<PublicFunction("f", 0, RefAssembly("I32", <<>>)),
                                       PublicFunction("f", 0, RefAssembly("I64", <<>>))>>,
                 SubTypes |-> <<[Name |-> "Item", Type |-> "I32"]>>,
                 Accepts |-> {<<>>},
                 PublicFields |-> <<PublicField("x", 0), PublicField("y", 1)>>,
                 Fields |-> <<RefAssembly("I32", <<>>), RefAssembly("I64", <<>>)>>]
          [] OTHER ->
                [PublicFunctions |-> <<>>, SubTypes |-> <<>>, Accepts |-> {<<>>},
                 PublicFields |-> <<>>, Fields |-> <<>>]]
\* Solve(fn, a): the call of the function fn of the constraint check with the
\* argument list a.  The functions of the check call each other through Solve.
RECURSIVE Solve(_, _)

\* the runtime types the checks meet, by handle: the LoadingArguments (Args)
\* of each
ConstraintRuntimeTypes ==
    [h \in {"I32", "I64", "I8", "Box<I32>", "Two", "TwoTwo", "One", "Method", "Three",
               "Wide", "Rec", "Lazy"} |->
        IF h = "Box<I32>" THEN [Id |-> "Box", Arguments |-> <<"I32">>]
        ELSE [Id |-> h, Arguments |-> <<>>]]

\* RuntimeType::Fields of the runtime types: the types of the fields that are
\* laid out (the fields of the reference type Lazy are not loaded yet)
ConstraintRuntimeFields(h) == IF h = "Rec" THEN <<"I32", "I64">> ELSE <<>>

\* FindTypeTemplate
FindConstraintTypeTemplate(la) == ConstraintTypeTemplates[la.Id]

\* CheckTypeGenericArguments: the constraints of the template accept the
\* arguments
CheckTypeGenericArguments(la) ==
    la.Arguments \in FindConstraintTypeTemplate(la).Accepts

\* LoadTypeInternal(la, try): the runtime type of a template and arguments;
\* arguments the template's constraints reject give nullptr on request (try)
\* and an ERR_L_GENERIC error otherwise
LoadConstraintTypeInternal(s, la, try) ==
    IF ~CheckTypeGenericArguments(la)
    THEN IF try THEN Ok(s, NoType)
         ELSE Throw(s, "ERR_L_GENERIC: Invalid generic arguments")
    ELSE Ok(s, CHOOSE h \in DOMAIN ConstraintRuntimeTypes : ConstraintRuntimeTypes[h] = la)

\* LoadRefType({target, tt->Generic}, typeId) for the type of a field of the
\* target's template: the references of the bundle's fields are REF_ASSEMBLY
\* entries without arguments and REF_ARGUMENT entries
LoadConstraintRefType(s, target, ref) ==
    CASE ref.k = "REF_ASSEMBLY" ->
            LoadConstraintTypeInternal(s, [Id |-> ref.Index, Arguments |-> <<>>], FALSE)
      [] ref.k = "REF_ARGUMENT" ->
            IF ref.Index >= Len(ConstraintRuntimeTypes[target].Arguments)
            THEN Throw(s, "ERR_L_PROGRAM: Invalid type reference")
            ELSE Ok(s, At(ConstraintRuntimeTypes[target].Arguments, ref.Index))
      [] OTHER -> Throw(s, "ERR_L_PROGRAM: Invalid type reference")

\* FindSubType found no subtype of the name
NoSubType == [Id |-> "", Arguments |-> <<>>]

\* FindSubType(lg, la): the template and arguments of the subtype of a parent
\* type by name
FindSubType(parent, name) ==
    LET subs == ConstraintTypeTemplates[ConstraintRuntimeTypes[parent].Id].SubTypes
        hits == {i \in 1..Len(subs) : subs[i].Name = name}
    IN IF hits = {} THEN NoSubType
       ELSE ConstraintRuntimeTypes[subs[CHOOSE i \in hits : \A j \in hits : i <= j].Type]

\* --- ConstraintType objects ---

\* a ConstraintType after aggregate initialization: the fields not given are
\* zero (OType CTT_FAIL is the enumerator 0)
NewConstraintType(ctype, determined, template, name, undetermined) ==
    [CType |-> ctype, Determined |-> determined, TypeTemplateIndex |-> template,
     SubtypeName |-> name, Args |-> <<>>, Undetermined |-> undetermined,
     TryArgumentConstraint |-> FALSE, ParentType |-> <<>>,
     OType |-> "CTT_FAIL", CLevel |-> 0]

\* a new object on the heap; the result is its address
Allocate(s, t) == Ok([s EXCEPT !.nodes = Append(@, t)], Len(s.nodes) + 1)

\* ConstraintType::Fail
ConstraintFail(s) == Allocate(s, NewConstraintType("CTT_FAIL", NoType, "", "", 0))

\* ConstraintType::RT
ConstraintRT(s, rt) == Allocate(s, NewConstraintType("CTT_RT", rt, "", "", 0))

\* ConstraintType::UD
ConstraintUD(s) ==
    Allocate([s EXCEPT !.UndeterminedTypes = Append(@, NoType)],
             NewConstraintType("CTT_ANY", NoType, "", "", Len(s.UndeterminedTypes)))

\* ConstraintType::G
ConstraintG(s, i) == Allocate(s, NewConstraintType("CTT_GENERIC", NoType, i, "", 0))

\* ConstraintType::SUB
ConstraintSUB(s, n) == Allocate(s, NewConstraintType("CTT_SUBTYPE", NoType, "", n, 0))

\* ConstraintType::Empty
ConstraintEmpty(s) == Allocate(s, NewConstraintType("CTT_EMPTY", NoType, "", "", 0))

\* the copy constructor of ConstraintType: the object with its Args and
\* ParentType vectors
CopyConstraintTypes(s, list, copied) ==
    IF Len(copied) = Len(list) THEN Ok(s, copied)
    ELSE LET x == Solve("CopyConstraintType", <<s, list[Len(copied) + 1]>>)
         IN Solve("CopyConstraintTypes", <<x.s, list, Append(copied, x.r)>>)

CopyConstraintType(s, t) ==
    LET args == Solve("CopyConstraintTypes", <<s, s.nodes[t].Args, <<>>>>)
        parent == Solve("CopyConstraintTypes", <<args.s, s.nodes[t].ParentType, <<>>>>)
    IN Allocate(parent.s, [s.nodes[t] EXCEPT !.Args = args.r, !.ParentType = parent.r])

\* GetRefArgument: the copy of argument i of the list
GetRefArgument(s, i, arguments) ==
    IF i >= Len(arguments) THEN Throw(s, "ERR_L_PROGRAM: Invalid type reference")
    ELSE Solve("CopyConstraintType", <<s, At(arguments, i)>>)

\* --- ConstraintCalculationCacheRoot ---

\* GetCurrentLevel
GetCurrentLevel(s) == Len(s.BacktrackListSize)

\* GetDetermined
GetDetermined(s, i) == At(s.UndeterminedTypes, i)

\* a Determined(i, t) that leaves the table as it is
Determined_NotRecorded(s, i, t) == s

\* Determined(i, t)
Determined(s, i, t) == [s EXCEPT !.UndeterminedTypes[i + 1] = t]

\* ConstraintType::DeductFail
DeductFail(s, t) ==
    IF s.asserts /\ s.nodes[t].CLevel # 0 THEN Throw(s, "abort")
    ELSE Ok([s EXCEPT !.nodes[t] = [@ EXCEPT !.OType = s.nodes[t].CType,
                                              !.CLevel = GetCurrentLevel(s),
                                              !.CType = "CTT_FAIL"],
                      !.BacktrackList = Append(@, t)], TRUE)

\* ConstraintType::DeductRT
DeductRT(s, t, rt) ==
    IF s.asserts /\ s.nodes[t].CLevel # 0 THEN Throw(s, "abort")
    ELSE Ok([s EXCEPT !.nodes[t] = [@ EXCEPT !.OType = s.nodes[t].CType,
                                              !.CLevel = GetCurrentLevel(s),
                                              !.CType = "CTT_RT",
                                              !.Determined = rt],
                      !.BacktrackList = Append(@, t)], TRUE)

\* StartBacktrackPoint
StartBacktrackPoint(s) ==
    Ok([s EXCEPT !.BacktrackListSize = Append(@, Len(s.BacktrackList))],
       Len(s.BacktrackListSize))

\* a loop of DoBacktrack that restores only the objects deducted under a
\* backtrack point started after the one backtracked to
RECURSIVE PopBacktrackList_Nested(_, _, _)
PopBacktrackList_Nested(s, num, level) ==
    IF num = 0 THEN s
    ELSE LET t == s.BacktrackList[Len(s.BacktrackList)]
             restored == IF s.nodes[t].CLevel > level + 1
                         THEN [s.nodes[t] EXCEPT !.CType = s.nodes[t].OType,
                                                 !.CLevel = 0,
                                                 !.Determined = NoType]
                         ELSE s.nodes[t]
         IN PopBacktrackList_Nested([s EXCEPT !.nodes[t] = restored,
                                              !.BacktrackList = SubSeq(@, 1, Len(@) - 1)],
                                    num - 1, level)

\* the loop of DoBacktrack: num more objects are taken from the back of the
\* list
RECURSIVE PopBacktrackList(_, _, _)
PopBacktrackList(s, num, level) ==
    IF num = 0 THEN s
    ELSE LET t == s.BacktrackList[Len(s.BacktrackList)]
             restored == IF s.nodes[t].CLevel > level
                         THEN [s.nodes[t] EXCEPT !.CType = s.nodes[t].OType,
                                                 !.CLevel = 0,
                                                 !.Determined = NoType]
                         ELSE s.nodes[t]
         IN PopBacktrackList([s EXCEPT !.nodes[t] = restored,
                                       !.BacktrackList = SubSeq(@, 1, Len(@) - 1)],
                             num - 1, level)

\* DoBacktrack.  Its two asserts hold of every call the checks make (a level
\* is backtracked to by the call that started it, before it starts another);
\* a call on which they fail stops here in every build.
DoBacktrack(s, level) ==
    IF ~(level < Len(s.BacktrackListSize)) THEN Throw(s, "abort")
    ELSE LET size == At(s.BacktrackListSize, level)
         IN IF ~(size <= Len(s.BacktrackList)) THEN Throw(s, "abort")
            ELSE Ok(PopBacktrackList(s, Len(s.BacktrackList) - size, level), TRUE)

\* Root::IsUndeterminedType.  A CTT_FAIL object reaches the default label:
\* assert(0), and false in a build without asserts.
IsUndeterminedTypes(s, list, i) ==
    IF i > Len(list) THEN Ok(s, FALSE)
    ELSE LET x == Solve("IsUndeterminedType", <<s, list[i]>>)
         IN IF x.e # "" \/ x.r THEN x ELSE Solve("IsUndeterminedTypes", <<s, list, i + 1>>)

IsUndeterminedType(s, ct) ==
    LET t == s.nodes[ct]
    IN CASE t.CType \in {"CTT_RT", "CTT_EMPTY"} -> Ok(s, FALSE)
         [] t.CType = "CTT_SUBTYPE" ->
                LET x == Solve("IsUndeterminedType", <<s, t.ParentType[1]>>)
                IN IF x.e # "" \/ x.r THEN x ELSE Solve("IsUndeterminedTypes", <<s, t.Args, 1>>)
         [] t.CType = "CTT_GENERIC" -> Solve("IsUndeterminedTypes", <<s, t.Args, 1>>)
         [] t.CType = "CTT_ANY" -> Ok(s, GetDetermined(s, t.Undetermined) = NoType)
         [] OTHER -> IF s.asserts THEN Throw(s, "abort") ELSE Ok(s, FALSE)

\* --- simplification ---

\* TrySimplifyConstraintType
TrySimplifyConstraintType(s, t, parent) ==
    LET x == Solve("SimplifyConstraintType", <<s, t>>)
    IN IF x.e # "" THEN x
       ELSE IF x.s.nodes[t].CType # "CTT_RT"
       THEN IF x.s.nodes[t].CType = "CTT_FAIL"
            THEN LET d == DeductFail(x.s, parent)
                 IN IF d.e # "" THEN d ELSE Ok(d.s, FALSE)
            ELSE Ok(x.s, FALSE)
       ELSE IF x.s.asserts /\ x.s.nodes[t].Determined = NoType THEN Throw(x.s, "abort")
       ELSE Ok(x.s, TRUE)

\* the CopyList call of SimplifyConstraintType: the arguments of t are
\* simplified in order up to the first that is not a runtime type
\* (breakFlag); r is breakFlag and the list of runtime types
SimplifyArguments(s, t, i, arguments) ==
    IF i > Len(s.nodes[t].Args) THEN Ok(s, [breakFlag |-> FALSE, Arguments |-> arguments])
    ELSE LET x == Solve("TrySimplifyConstraintType", <<s, s.nodes[t].Args[i], t>>)
         IN IF x.e # "" THEN x
            ELSE IF ~x.r THEN Ok(x.s, [breakFlag |-> TRUE, Arguments |-> <<>>])
            ELSE Solve("SimplifyArguments", <<x.s, t, i + 1,
                                   Append(arguments, x.s.nodes[s.nodes[t].Args[i]].Determined)>>)

\* the end of SimplifyConstraintType for CTT_GENERIC and CTT_SUBTYPE: the
\* template and arguments la are instantiated
SimplifyToLoadedType(s, t, la) ==
    IF s.nodes[t].TryArgumentConstraint /\ ~CheckTypeGenericArguments(la)
    THEN DeductFail(s, t)
    ELSE LET l == LoadConstraintTypeInternal(s, la, s.nodes[t].TryArgumentConstraint)
         IN IF l.e # "" THEN l ELSE DeductRT(l.s, t, l.r)

\* SimplifyConstraintType
SimplifyConstraintType(s, t) ==
    LET type == s.nodes[t]
    IN CASE type.CType \in {"CTT_RT", "CTT_EMPTY", "CTT_FAIL"} -> Ok(s, TRUE)
         [] type.CType = "CTT_ANY" ->
                IF GetDetermined(s, type.Undetermined) # NoType
                THEN DeductRT(s, t, GetDetermined(s, type.Undetermined))
                ELSE Ok(s, TRUE)
         [] type.CType = "CTT_GENERIC" ->
                LET a == Solve("SimplifyArguments", <<s, t, 1, <<>>>>)
                IN IF a.e # "" THEN a
                   ELSE IF a.r.breakFlag THEN Ok(a.s, TRUE)
                   ELSE Solve("SimplifyToLoadedType", <<a.s, t, [Id |-> type.TypeTemplateIndex,
                                                      Arguments |-> a.r.Arguments]>>)
         [] type.CType = "CTT_SUBTYPE" ->
                LET p == Solve("TrySimplifyConstraintType", <<s, type.ParentType[1], t>>)
                IN IF p.e # "" THEN p
                   ELSE IF ~p.r THEN Ok(p.s, TRUE)
                   ELSE LET a == Solve("SimplifyArguments", <<p.s, t, 1, <<>>>>)
                        IN IF a.e # "" THEN a
                           ELSE IF a.r.breakFlag THEN Ok(a.s, TRUE)
                           ELSE LET la == FindSubType(a.s.nodes[type.ParentType[1]].Determined,
                                                      type.SubtypeName)
                                IN IF la = NoSubType
                                   THEN IF type.TryArgumentConstraint
                                        THEN DeductFail(a.s, t)
                                        ELSE Throw(a.s, "ERR_L_PROGRAM: Invalid subtype constraint")
                                   ELSE Solve("SimplifyToLoadedType", <<a.s, t, la>>)

\* CheckSimplifiedConstraintType
CheckSimplifiedConstraintType(s, t) ==
    LET x == Solve("SimplifyConstraintType", <<s, t>>)
    IN IF x.e # "" THEN x
       ELSE IF x.s.nodes[t].CType \notin {"CTT_RT", "CTT_EMPTY"}
       THEN IF x.s.asserts /\ x.s.nodes[t].CType # "CTT_FAIL" THEN Throw(x.s, "abort")
            ELSE Ok(x.s, FALSE)
       ELSE IF /\ x.s.asserts
               /\ x.s.nodes[t].Determined = NoType
               /\ x.s.nodes[t].CType # "CTT_EMPTY"
            THEN Throw(x.s, "abort")
       ELSE Ok(x.s, TRUE)

\* CheckDeterminedTypesEqual
CheckDeterminedTypesEqual(s, a, b) ==
    LET x == Solve("CheckSimplifiedConstraintType", <<s, a>>)
    IN IF x.e # "" \/ ~x.r THEN x
       ELSE LET y == Solve("CheckSimplifiedConstraintType", <<x.s, b>>)
            IN IF y.e # "" \/ ~y.r THEN y
               ELSE Ok(y.s, y.s.nodes[a].Determined = y.s.nodes[b].Determined)

\* --- construction of ConstraintType objects from type references ---

\* The three constructions differ in the list REF_ARGUMENT copies from, in
\* what REF_SELF stands for and in the entries they accept:
\*   "argument": ConstructConstraintArgumentType (CheckArguments, CheckTarget)
\*   "trait":    ConstructConstraintTraitType (the cache's Arguments, Target)
\*   "reflist":  ConstructConstraintRefListType (arguments, selfType)
ConstructConstraintTypes(s, mode, refs, arguments, self, made) ==
    IF Len(made) = Len(refs) THEN Ok(s, made)
    ELSE LET x == Solve("ConstructConstraintType", <<s, mode, refs[Len(made) + 1], arguments, self>>)
         IN IF x.e # "" THEN x
            ELSE Solve("ConstructConstraintTypes", <<x.s, mode, refs, arguments, self, Append(made, x.r)>>)

ConstructConstraintType(s, mode, ref, arguments, self) ==
    CASE ref.k = "REF_ANY" /\ mode = "argument" -> ConstraintUD(s)
      [] ref.k = "REF_TRY" /\ mode = "argument" ->
            LET x == Solve("ConstructConstraintType", <<s, mode, ref.Entry, arguments, self>>)
            IN IF x.e # "" THEN x
               ELSE Ok([x.s EXCEPT !.nodes[x.r].TryArgumentConstraint = TRUE], x.r)
      [] ref.k = "REF_EMPTY" /\ mode # "argument" -> ConstraintEmpty(s)
      [] ref.k = "REF_ARGUMENT" -> Solve("GetRefArgument", <<s, ref.Index, arguments>>)
      [] ref.k = "REF_SELF" /\ mode = "argument" ->
            IF s.nodes[self].CType = "CTT_FAIL"
            THEN Throw(s, "ERR_L_PROGRAM: Invalid use of REF_SELF")
            ELSE Solve("CopyConstraintType", <<s, self>>)
      [] ref.k = "REF_SELF" /\ mode = "trait" -> Solve("CopyConstraintType", <<s, self>>)
      [] ref.k = "REF_SELF" /\ mode = "reflist" ->
            IF self # NoType THEN ConstraintRT(s, self) ELSE ConstraintFail(s)
      [] ref.k = "REF_ASSEMBLY" ->
            LET g == ConstraintG(s, ref.Index)
                args == Solve("ConstructConstraintTypes", <<g.s, mode, ref.Args, arguments, self, <<>>>>)
            IN IF args.e # "" THEN args
               ELSE Ok([args.s EXCEPT !.nodes[g.r].Args = args.r], g.r)
      [] ref.k = "REF_SUBTYPE" ->
            LET sub == ConstraintSUB(s, ref.Name)
                parent == Solve("ConstructConstraintType", <<sub.s, mode, ref.Parent, arguments, self>>)
            IN IF parent.e # "" THEN parent
               ELSE Ok([parent.s EXCEPT !.nodes[sub.r].ParentType = <<parent.r>>], sub.r)
      [] OTHER -> Throw(s, "ERR_L_PROGRAM: Invalid type reference")

\* ConstructConstraintArgumentType
ConstructConstraintArgumentType(s, checkArguments, checkTarget, ref) ==
    Solve("ConstructConstraintType", <<s, "argument", ref, checkArguments, checkTarget>>)

\* ConstructConstraintTraitType
ConstructConstraintTraitType(s, cache, ref) ==
    Solve("ConstructConstraintType", <<s, "trait", ref, s.caches[cache].Arguments,
                            s.caches[cache].Target>>)

\* ConstructConstraintRefListType
ConstructConstraintRefListType(s, ref, arguments, selfType) ==
    Solve("ConstructConstraintType", <<s, "reflist", ref, arguments, selfType>>)

\* --- comparison and determination of types ---

\* CheckTypePossiblyEqual.  The first test reads a twice: a CTT_FAIL b goes on
\* to the tests below.
CheckArgumentsPossiblyEqual(s, a, b, j) ==
    IF j > Len(s.nodes[a].Args) THEN Ok(s, TRUE)
    ELSE LET x == Solve("CheckTypePossiblyEqual", <<s, s.nodes[a].Args[j], s.nodes[b].Args[j]>>)
         IN IF x.e # "" \/ ~x.r THEN x ELSE Solve("CheckArgumentsPossiblyEqual", <<x.s, a, b, j + 1>>)

\* the loop over the arguments of the runtime type of a against those of b
CheckLoadedPossiblyEqual(s, arguments, b, j) ==
    IF j > Len(arguments) THEN Ok(s, TRUE)
    ELSE LET ct == ConstraintRT(s, arguments[j])
             x == Solve("CheckTypePossiblyEqual", <<ct.s, s.nodes[b].Args[j], ct.r>>)
         IN IF x.e # "" \/ ~x.r THEN x ELSE Solve("CheckLoadedPossiblyEqual", <<x.s, arguments, b, j + 1>>)

CheckTypePossiblyEqual(s, a, b) ==
    LET ta == s.nodes[a]
        tb == s.nodes[b]
    IN IF ta.CType = "CTT_FAIL" \/ ta.CType = "CTT_FAIL" THEN Ok(s, FALSE)
       ELSE IF ta.CType = "CTT_EMPTY" \/ tb.CType = "CTT_EMPTY"
       THEN Ok(s, ta.CType = tb.CType)
       ELSE IF ta.CType = "CTT_ANY" \/ tb.CType = "CTT_ANY" THEN Ok(s, TRUE)
       ELSE IF ta.CType = "CTT_SUBTYPE" \/ tb.CType = "CTT_SUBTYPE" THEN Ok(s, TRUE)
       ELSE IF ta.CType = "CTT_RT" /\ tb.CType = "CTT_RT"
       THEN Ok(s, ta.Determined = tb.Determined)
       ELSE IF ta.CType = "CTT_GENERIC" /\ tb.CType = "CTT_GENERIC"
       THEN IF \/ ta.TypeTemplateIndex # tb.TypeTemplateIndex
               \/ Len(ta.Args) # Len(tb.Args)
            THEN Ok(s, FALSE)
            ELSE Solve("CheckArgumentsPossiblyEqual", <<s, a, b, 1>>)
       ELSE IF ta.CType = "CTT_RT"
       THEN LET la == ConstraintRuntimeTypes[ta.Determined]
            IN IF la.Id # tb.TypeTemplateIndex \/ Len(la.Arguments) # Len(tb.Args)
               THEN Ok(s, FALSE)
               ELSE Solve("CheckLoadedPossiblyEqual", <<s, la.Arguments, b, 1>>)
       ELSE Solve("CheckTypePossiblyEqual", <<s, b, a>>)

\* TryDetermineEqualTypes
TryDetermineEqualArguments(s, a, b, j) ==
    IF j > Len(s.nodes[a].Args) THEN Ok(s, 0)
    ELSE LET r == Solve("TryDetermineEqualTypes", <<s, s.nodes[a].Args[j], s.nodes[b].Args[j]>>)
         IN IF r.e # "" \/ r.r # 0 THEN r ELSE Solve("TryDetermineEqualArguments", <<r.s, a, b, j + 1>>)

\* the loop over the arguments of the runtime type of a against those of b
TryDetermineEqualLoaded(s, arguments, b, j) ==
    IF j > Len(arguments) THEN Ok(s, 0)
    ELSE LET ct == ConstraintRT(s, arguments[j])
             r == Solve("TryDetermineEqualTypes", <<ct.s, s.nodes[b].Args[j], ct.r>>)
         IN IF r.e # "" \/ r.r # 0 THEN r ELSE Solve("TryDetermineEqualLoaded", <<r.s, arguments, b, j + 1>>)

TryDetermineEqualTypes(s, a, b) ==
    LET x == Solve("SimplifyConstraintType", <<s, a>>)
        y == Solve("SimplifyConstraintType", <<x.s, b>>)
        ta == y.s.nodes[a]
        tb == y.s.nodes[b]
    IN IF x.e # "" THEN x
       ELSE IF y.e # "" THEN y
       ELSE IF ta.CType = "CTT_EMPTY" \/ tb.CType = "CTT_EMPTY" THEN Ok(y.s, 0)
       ELSE IF ta.CType = "CTT_FAIL" \/ tb.CType = "CTT_FAIL" THEN Ok(y.s, -1)
       ELSE IF ta.CType = "CTT_ANY" \/ tb.CType = "CTT_ANY"
       THEN IF ta.CType = "CTT_RT"
            THEN Ok(Determined(y.s, tb.Undetermined, ta.Determined), 1)
            ELSE IF tb.CType = "CTT_RT"
            THEN Ok(Determined(y.s, ta.Undetermined, tb.Determined), 1)
            ELSE Ok(y.s, 0)
       ELSE IF ta.CType = "CTT_SUBTYPE" \/ tb.CType = "CTT_SUBTYPE" THEN Ok(y.s, 0)
       ELSE IF ta.CType = "CTT_RT" /\ tb.CType = "CTT_RT"
       THEN IF ta.Determined # tb.Determined THEN Ok(y.s, -1) ELSE Ok(y.s, 0)
       ELSE IF ta.CType = "CTT_GENERIC" /\ tb.CType = "CTT_GENERIC"
       THEN IF \/ ta.TypeTemplateIndex # tb.TypeTemplateIndex
               \/ Len(ta.Args) # Len(tb.Args)
            THEN Ok(y.s, -1)
            ELSE Solve("TryDetermineEqualArguments", <<y.s, a, b, 1>>)
       ELSE IF ta.CType = "CTT_RT"
       THEN LET la == ConstraintRuntimeTypes[ta.Determined]
            IN IF la.Id # tb.TypeTemplateIndex \/ Len(la.Arguments) # Len(tb.Args)
               THEN Ok(y.s, -1)
               ELSE Solve("TryDetermineEqualLoaded", <<y.s, la.Arguments, b, 1>>)
       ELSE Solve("TryDetermineEqualTypes", <<y.s, b, a>>)

\* AreConstraintTypesEqual
AreConstraintTypeListsEqual(s, la, lb, j) ==
    IF j > Len(la) THEN Ok(s, TRUE)
    ELSE LET x == Solve("AreConstraintTypesEqual", <<s, la[j], lb[j]>>)
         IN IF x.e # "" \/ ~x.r THEN x ELSE Solve("AreConstraintTypeListsEqual", <<x.s, la, lb, j + 1>>)

AreConstraintTypesEqual(s, a, b) ==
    LET x == Solve("SimplifyConstraintType", <<s, a>>)
        y == Solve("SimplifyConstraintType", <<x.s, b>>)
        ta == y.s.nodes[a]
        tb == y.s.nodes[b]
        args == IF Len(ta.Args) # Len(tb.Args) THEN Ok(y.s, FALSE)
                ELSE Solve("AreConstraintTypeListsEqual", <<y.s, ta.Args, tb.Args, 1>>)
    IN IF x.e # "" THEN x
       ELSE IF y.e # "" THEN y
       ELSE IF ta.CType # tb.CType THEN Ok(y.s, FALSE)
       ELSE IF ta.CType \in {"CTT_EMPTY", "CTT_FAIL"} THEN Ok(y.s, TRUE)
       ELSE IF ta.CType = "CTT_ANY" THEN Ok(y.s, ta.Undetermined = tb.Undetermined)
       ELSE IF ta.CType = "CTT_RT" THEN Ok(y.s, ta.Determined = tb.Determined)
       ELSE IF ta.CType = "CTT_GENERIC"
       THEN IF ta.TypeTemplateIndex # tb.TypeTemplateIndex THEN Ok(y.s, FALSE) ELSE args
       ELSE IF ta.SubtypeName # tb.SubtypeName THEN Ok(y.s, FALSE)
       ELSE LET p == Solve("AreConstraintTypesEqual", <<y.s, ta.ParentType[1], tb.ParentType[1]>>)
            IN IF p.e # "" \/ ~p.r THEN p
               ELSE IF Len(ta.Args) # Len(tb.Args) THEN Ok(p.s, FALSE)
               ELSE Solve("AreConstraintTypeListsEqual", <<p.s, ta.Args, tb.Args, 1>>)

\* AreConstraintsEqual
AreConstraintsEqual(s, a, b) ==
    IF s.caches[a].Source # s.caches[b].Source THEN Ok(s, FALSE)
    ELSE IF Len(s.caches[a].CheckArguments) # Len(s.caches[b].CheckArguments)
    THEN Ok(s, FALSE)
    ELSE Solve("AreConstraintTypeListsEqual", <<s, s.caches[a].CheckArguments,
                                     s.caches[b].CheckArguments, 1>>)

\* --- traits and constraints of the bundle ---

\* a GenericConstraint; Where tells the objects apart (the declaration or
\* trait the constraint is written in): a pointer to a constraint is the
\* record
GenericConstraint(where, type, index, target, arguments) ==
    [Where |-> where, Type |-> type, Index |-> index, Target |-> target,
     Arguments |-> arguments, ExportName |-> <<>>]

\* a function a trait requires of its target
TraitFunction(name, ret) ==
    [ElementName |-> name, ReturnType |-> ret, ParameterTypes |-> <<>>, ExportName |-> <<>>]

\* a field a trait requires of its target
TraitField(name, type) == [ElementName |-> name, Type |-> type, ExportName |-> <<>>]

\* a type a trait exports: Index is the type reference
TraitReferencedType(index) == [Index |-> index, ExportName |-> <<>>]

\* the constraint, function, field or type x with the export name
Exported(x, name) == [x EXCEPT !.ExportName = name]

\* GenericDefArgumentListSize::Create
CreateArgumentListSize(n) ==
    IF n > 0 THEN <<[Size |-> n, IsVariable |-> FALSE]>> ELSE <<>>

\* the traits by name: the parameters, the sub-constraints, the functions
\* (the fields and exported types of Shape and Deep are in TraitMembers)
ConstraintTraits ==
    [t \in {"Pair", "Missing", "WithMethod", "Loop", "Ping", "Pong", "Outer", "AnyChain",
             "Shape", "Deep"} |->
        CASE t = "Pair" ->
                [ParameterCount |-> CreateArgumentListSize(1), Constraints |-> <<>>,
                 Functions |-> <<TraitFunction("f", RefArgument(0)),
                                 TraitFunction("g", RefArgument(0))>>]
          [] t = "Missing" ->
                [ParameterCount |-> CreateArgumentListSize(1), Constraints |-> <<>>,
                 Functions |-> <<TraitFunction("f", RefArgument(0)),
                                 TraitFunction("h", RefArgument(0))>>]
          [] t = "WithMethod" ->
                [ParameterCount |-> CreateArgumentListSize(2), Constraints |-> <<>>,
                 Functions |-> <<TraitFunction("f", RefArgument(0)),
                                 TraitFunction("m", RefArgument(1))>>]
          [] t = "Loop" ->
                [ParameterCount |-> CreateArgumentListSize(1),
                 Constraints |-> <<GenericConstraint("Loop", "CONSTRAINT_TRAIT_ASSEMBLY",
                                       "Loop", RefSelf, <<RefArgument(0)>>)>>,
                 Functions |-> <<>>]
          [] t = "Ping" ->
                [ParameterCount |-> CreateArgumentListSize(1),
                 Constraints |-> <<GenericConstraint("Ping", "CONSTRAINT_TRAIT_ASSEMBLY",
                                       "Pong", RefSelf, <<RefArgument(0)>>)>>,
                 Functions |-> <<>>]
          [] t = "Pong" ->
                [ParameterCount |-> CreateArgumentListSize(1),
                 Constraints |-> <<GenericConstraint("Pong", "CONSTRAINT_TRAIT_ASSEMBLY",
                                       "Ping", RefSelf, <<RefArgument(0)>>)>>,
                 Functions |-> <<>>]
          [] t = "Outer" ->
                [ParameterCount |-> CreateArgumentListSize(1),
                 Constraints |-> <<GenericConstraint("Outer", "CONSTRAINT_TRAIT_ASSEMBLY",
                                       "Pair", RefSelf, <<RefArgument(0)>>)>>,
                 Functions |-> <<TraitFunction("f", RefArgument(0))>>]
          [] t = "Shape" ->
                \* Shape<T>: a function f that returns T, exported as "f"
                [ParameterCount |-> CreateArgumentListSize(1), Constraints |-> <<>>,
                 Functions |-> <<Exported(TraitFunction("f", RefArgument(0)), <<"f">>)>>]
          [] t = "Deep" ->
                \* Deep<T>: the target is a Shape<T> (exported as "i") and has a
                \* function f that returns I32, exported as "g"
                [ParameterCount |-> CreateArgumentListSize(1),
                 Constraints |-> <<Exported(GenericConstraint("Deep",
                                                "CONSTRAINT_TRAIT_ASSEMBLY", "Shape", RefSelf,
                                                <<RefArgument(0)>>), <<"i">>)>>,
                 Functions |-> <<Exported(TraitFunction("f", RefAssembly("I32", <<>>)),
                                          <<"g">>)>>]
          [] t = "AnyChain" ->
                [ParameterCount |-> CreateArgumentListSize(1),
                 Constraints |-> <<GenericConstraint("AnyChain", "CONSTRAINT_TRAIT_ASSEMBLY",
                                       "AnyChain", RefSelf, <<RefAny>>)>>,
                 Functions |-> <<>>]]

\* Trait::Fields and Trait::Types of the traits.  Shape<T> requires the fields
\* y of type T and x of type I32, exported as "b" and "a", and exports the
\* types T as "t", the subtype Item of the target as "s" and none as "v".
TraitMembers(t) ==
    IF t = "Shape"
    THEN [Fields |-> <<Exported(TraitField("y", RefArgument(0)), <<"b">>),
                       Exported(TraitField("x", RefAssembly("I32", <<>>)), <<"a">>)>>,
          Types |-> <<Exported(TraitReferencedType(RefEmpty), <<"v">>),
                      Exported(TraitReferencedType(RefArgument(0)), <<"t">>),
                      Exported(TraitReferencedType(RefSubtype("Item", RefSelf)), <<"s">>)>>]
    ELSE [Fields |-> <<>>, Types |-> <<>>]

\* --- ConstraintCalculationCache objects ---

\* CreateConstraintCache, with InitTraitConstraintCache for a trait constraint
CreateConstraintCache(s, constraint, args, checkTarget) ==
    LET checkArguments == Solve("CopyConstraintTypes", <<s, args, <<>>>>)
        target == Solve("ConstructConstraintArgumentType", <<checkArguments.s, checkArguments.r,
                                                  checkTarget, constraint.Target>>)
        arguments == Solve("ConstructConstraintTypes", <<target.s, "argument", constraint.Arguments,
                                              checkArguments.r, checkTarget, <<>>>>)
        cache == [Parent |-> 0, Source |-> constraint,
                  CheckArguments |-> checkArguments.r, CheckTarget |-> checkTarget,
                  Target |-> target.r, Arguments |-> arguments.r, Children |-> <<>>,
                  TraitCacheCreated |-> FALSE, TraitMemberResolved |-> FALSE,
                  Trait |-> constraint.Index, TraitFields |-> <<>>,
                  TraitFunctions |-> <<>>,
                  TraitFunctionUndetermined |-> <<>>]
    IN IF target.e # "" THEN target
       ELSE IF arguments.e # "" THEN arguments
       ELSE IF /\ constraint.Type = "CONSTRAINT_TRAIT_ASSEMBLY"
               /\ constraint.Index \notin DOMAIN ConstraintTraits
            THEN Throw(arguments.s, "ERR_L_PROGRAM: Invalid trait reference")
       ELSE Ok([arguments.s EXCEPT !.caches = Append(@, cache), !.Size = @ + 1],
               Len(arguments.s.caches) + 1)

\* a check of the new sub-constraint ptr against the cache p alone
CheckCircularConstraint_ParentOnly(s, p, ptr) ==
    IF p = 0 \/ p # s.caches[ptr].Parent THEN Ok(s, TRUE)
    ELSE LET x == Solve("AreConstraintsEqual", <<s, p, ptr>>)
         IN IF x.e # "" THEN x
            ELSE IF x.r THEN Throw(x.s, "ERR_L_CIRCULAR: Circular constraint check")
            ELSE Ok(x.s, TRUE)

\* the walk of EnsureSubConstraintCached up the Parent chain from p: the new
\* sub-constraint ptr is compared with every cache above it
CheckCircularConstraint(s, p, ptr) ==
    IF p = 0 THEN Ok(s, TRUE)
    ELSE LET x == Solve("AreConstraintsEqual", <<s, p, ptr>>)
         IN IF x.e # "" THEN x
            ELSE IF x.r THEN Throw(x.s, "ERR_L_CIRCULAR: Circular constraint check")
            ELSE Solve("CheckCircularConstraint", <<x.s, x.s.caches[p].Parent, ptr>>)

\* the loop of EnsureSubConstraintCached over the sub-constraints of the trait
CreateSubConstraints(s, parent, k) ==
    LET constraints == ConstraintTraits[s.caches[parent].Trait].Constraints
        target == Solve("CopyConstraintType", <<s, s.caches[parent].Target>>)
        child == Solve("CreateConstraintCache", <<target.s, constraints[k],
                                       s.caches[parent].Arguments, target.r>>)
        linked == [child.s EXCEPT !.caches[parent].Children = Append(@, child.r),
                                  !.caches[child.r].Parent = parent]
        circular == Solve("CheckCircularConstraint", <<linked, parent, child.r>>)
    IN IF k > Len(constraints) THEN Ok(s, TRUE)
       ELSE IF child.e # "" THEN child
       ELSE IF circular.e # "" THEN circular
       ELSE Solve("CreateSubConstraints", <<circular.s, parent, k + 1>>)

\* the loop of EnsureSubConstraintCached over the fields of the trait
CreateTraitFields(s, parent, k) ==
    LET fields == TraitMembers(s.caches[parent].Trait).Fields
        type == Solve("ConstructConstraintTraitType", <<s, parent, fields[k].Type>>)
        info == [Type |-> type.r, TypeInTarget |-> 0, FieldIndex |-> 0]
    IN IF k > Len(fields) THEN Ok(s, TRUE)
       ELSE IF type.e # "" THEN type
       ELSE Solve("CreateTraitFields", <<[type.s EXCEPT !.caches[parent].TraitFields = Append(@, info)],
                              parent, k + 1>>)

\* the loop of EnsureSubConstraintCached over the functions of the trait
CreateTraitFunctions(s, parent, k) ==
    LET functions == ConstraintTraits[s.caches[parent].Trait].Functions
        ret == Solve("ConstructConstraintTraitType", <<s, parent, functions[k].ReturnType>>)
        params == Solve("ConstructConstraintTypes", <<ret.s, "trait", functions[k].ParameterTypes,
                                           s.caches[parent].Arguments,
                                           s.caches[parent].Target, <<>>>>)
        info == [Overloads |-> <<>>, CurrentOverload |-> 0,
                 TraitReturnType |-> ret.r, TraitParameterTypes |-> params.r]
    IN IF k > Len(functions) THEN Ok(s, TRUE)
       ELSE IF ret.e # "" THEN ret
       ELSE IF params.e # "" THEN params
       ELSE Solve("CreateTraitFunctions", <<[params.s EXCEPT !.caches[parent].TraitFunctions =
                                                      Append(@, info)],
                                 parent, k + 1>>)

\* EnsureSubConstraintCached
EnsureSubConstraintCached(s, parent) ==
    LET trait == ConstraintTraits[s.caches[parent].Trait]
        children == Solve("CreateSubConstraints", <<s, parent, 1>>)
        fields == Solve("CreateTraitFields", <<children.s, parent, 1>>)
        functions == Solve("CreateTraitFunctions", <<fields.s, parent, 1>>)
    IN IF s.caches[parent].TraitCacheCreated THEN Ok(s, TRUE)
       ELSE IF ~CanMatch(trait.ParameterCount, <<Len(s.caches[parent].Arguments)>>)
       THEN Throw(s, "ERR_L_GENERIC: Invalid generic arguments")
       ELSE IF children.e # "" THEN children
       ELSE IF fields.e # "" THEN fields
       ELSE IF functions.e # "" THEN functions
       ELSE Ok([functions.s EXCEPT !.caches[parent].TraitMemberResolved = FALSE,
                                   !.caches[parent].TraitCacheCreated = TRUE], TRUE)

\* --- members of the target of a trait constraint ---

\* CTT_RT objects for the arguments of the target
LoadedTypeArguments(s, arguments, made) ==
    IF Len(made) = Len(arguments) THEN Ok(s, made)
    ELSE LET t == ConstraintRT(s, arguments[Len(made) + 1])
         IN Solve("LoadedTypeArguments", <<t.s, arguments, Append(made, t.r)>>)

\* the additional arguments of a function reference: a new placeholder for
\* each, appended to typeArgs and (a copy) to additionalUd
AdditionalTypeArguments(s, n, typeArgs, additionalUd) ==
    IF n = 0 THEN Ok(s, [typeArgs |-> typeArgs, additionalUd |-> additionalUd])
    ELSE LET t == ConstraintUD(s)
             copy == Solve("CopyConstraintType", <<t.s, t.r>>)
         IN Solve("AdditionalTypeArguments", <<copy.s, n - 1, Append(typeArgs, t.r),
                                    Append(additionalUd, copy.r)>>)

\* LoadTraitFunctionCacheInfo for the public function func (number index) of
\* the target's template: the return and parameter types of the function
\* under the target's arguments
LoadTraitFunctionCacheInfo(s, parent, index, func) ==
    LET target == s.nodes[s.caches[parent].Target].Determined
        loaded == Solve("LoadedTypeArguments", <<s, ConstraintRuntimeTypes[target].Arguments, <<>>>>)
        all == Solve("AdditionalTypeArguments", <<loaded.s, func.Additional, loaded.r, <<>>>>)
        ret == Solve("ConstructConstraintRefListType", <<all.s, func.ReturnType, all.r.typeArgs, NoType>>)
        params == Solve("ConstructConstraintTypes", <<ret.s, "reflist", func.ParameterTypes,
                                           all.r.typeArgs, NoType, <<>>>>)
    IN IF ret.e # "" THEN ret
       ELSE IF params.e # "" THEN params
       ELSE Ok(params.s, [fi |-> [Index |-> index, ReturnType |-> ret.r,
                                  ParameterTypes |-> params.r],
                          ud |-> all.r.additionalUd])

CheckTypeListsPossiblyEqual(s, la, lb, k) ==
    IF k > Len(la) THEN Ok(s, TRUE)
    ELSE LET x == Solve("CheckTypePossiblyEqual", <<s, la[k], lb[k]>>)
         IN IF x.e # "" \/ ~x.r THEN x ELSE Solve("CheckTypeListsPossiblyEqual", <<x.s, la, lb, k + 1>>)

\* CheckTraitTargetFunctionOverload for trait function i: r.ok tells whether
\* the overload survives
CheckTraitTargetFunctionOverload(s, parent, i, index, func) ==
    LET info == Solve("LoadTraitFunctionCacheInfo", <<s, parent, index, func>>)
        f == info.s.caches[parent].TraitFunctions[i]
        ret == Solve("CheckTypePossiblyEqual", <<info.s, info.r.fi.ReturnType, f.TraitReturnType>>)
        params == Solve("CheckTypeListsPossiblyEqual", <<ret.s, info.r.fi.ParameterTypes,
                                              f.TraitParameterTypes, 1>>)
        no == [ok |-> FALSE, fi |-> info.r.fi, ud |-> info.r.ud]
    IN IF info.e # "" THEN info
       ELSE IF Len(info.r.fi.ParameterTypes) # Len(f.TraitParameterTypes)
       THEN Ok(info.s, no)
       ELSE IF ret.e # "" THEN ret
       ELSE IF ~ret.r THEN Ok(ret.s, no)
       ELSE IF params.e # "" THEN params
       ELSE IF ~params.r THEN Ok(params.s, no)
       ELSE Ok(params.s, [no EXCEPT !.ok = TRUE])

\* the search of TryCalculateTraitSubMember in the public function list of the
\* target's template for trait function i, from public function k on (the
\* types of the bundle have no virtual function tables)
SearchPublicFunctions(s, parent, i, k) ==
    LET target == s.nodes[s.caches[parent].Target].Determined
        tt == FindConstraintTypeTemplate(ConstraintRuntimeTypes[target])
        name == ConstraintTraits[s.caches[parent].Trait].Functions[i].ElementName
        x == Solve("CheckTraitTargetFunctionOverload", <<s, parent, i, k - 1, tt.PublicFunctions[k]>>)
        added == [x.s EXCEPT !.caches[parent].TraitFunctions[i].Overloads =
                                 Append(@, x.r.fi),
                             !.caches[parent].TraitFunctionUndetermined = @ \o x.r.ud]
    IN IF k > Len(tt.PublicFunctions) THEN Ok(s, TRUE)
       ELSE IF tt.PublicFunctions[k].Name # name
       THEN Solve("SearchPublicFunctions", <<s, parent, i, k + 1>>)
       ELSE IF x.e # "" THEN x
       ELSE IF ~x.r.ok THEN Solve("SearchPublicFunctions", <<x.s, parent, i, k + 1>>)
       ELSE Solve("SearchPublicFunctions", <<added, parent, i, k + 1>>)

\* the Id of the first public field of the template with the name, SIZE_MAX
\* (-1) if there is none
FindPublicField(tt, name) ==
    LET hits == {k \in 1..Len(tt.PublicFields) : tt.PublicFields[k].Name = name}
    IN IF hits = {} THEN -1
       ELSE tt.PublicFields[CHOOSE k \in hits : \A j \in hits : k <= j].Id

\* the loop of TryCalculateTraitSubMember over the fields of the trait: the
\* field of the target with the name is bound (FieldIndex), and its type
\* (TypeInTarget) is the type of the laid out field, or the type the
\* template gives it when the fields of the target are not loaded
ResolveTraitFields(s, parent, i) ==
    LET fields == TraitMembers(s.caches[parent].Trait).Fields
        target == s.nodes[s.caches[parent].Target].Determined
        tt == FindConstraintTypeTemplate(ConstraintRuntimeTypes[target])
        fid == FindPublicField(tt, fields[i].ElementName)
        field_type == IF Len(ConstraintRuntimeFields(target)) = 0
                      THEN LoadConstraintRefType(s, target, At(tt.Fields, fid))
                      ELSE Ok(s, At(ConstraintRuntimeFields(target), fid))
        typeInTarget == ConstraintRT(field_type.s, field_type.r)
    IN IF i > Len(fields) THEN Ok(s, 1)
       ELSE IF fid = -1 THEN Ok(s, -1)
       ELSE IF field_type.e # "" THEN field_type
       ELSE Solve("ResolveTraitFields", <<
                [typeInTarget.s EXCEPT !.caches[parent].TraitFields[i] =
                                           [@ EXCEPT !.FieldIndex = fid,
                                                     !.TypeInTarget = typeInTarget.r]],
                parent, i + 1>>)

\* the loop of TryCalculateTraitSubMember over the functions of the trait
ResolveTraitFunctions(s, parent, i) ==
    LET x == Solve("SearchPublicFunctions", <<s, parent, i, 1>>)
    IN IF i > Len(ConstraintTraits[s.caches[parent].Trait].Functions)
       THEN Ok([s EXCEPT !.caches[parent].TraitMemberResolved = TRUE], 1)
       ELSE IF x.e # "" THEN x
       ELSE IF Len(x.s.caches[parent].TraitFunctions[i].Overloads) = 0 THEN Ok(x.s, -1)
       ELSE Solve("ResolveTraitFunctions", <<x.s, parent, i + 1>>)

\* TryCalculateTraitSubMember.  A CTT_EMPTY target has no runtime type:
\* assert(target), and a read through the null pointer in a build without
\* asserts.
TryCalculateTraitSubMember(s, parent) ==
    LET x == Solve("SimplifyConstraintType", <<s, s.caches[parent].Target>>)
        target == x.s.nodes[s.caches[parent].Target]
    IN IF s.caches[parent].TraitMemberResolved THEN Ok(s, 1)
       ELSE IF x.e # "" THEN x
       ELSE IF target.CType \notin {"CTT_RT", "CTT_EMPTY"} THEN Ok(x.s, 0)
       ELSE IF target.Determined = NoType
       THEN Throw(x.s, IF x.s.asserts THEN "abort" ELSE "SIGSEGV")
       ELSE LET fields == Solve("ResolveTraitFields", <<x.s, parent, 1>>)
            IN IF fields.e # "" \/ fields.r # 1 THEN fields
               ELSE Solve("ResolveTraitFunctions", <<fields.s, parent, 1>>)

\* the loop of TryDetermineConstraintArgument over the fields of the trait
DetermineByFields(s, cache, i) ==
    LET f == s.caches[cache].TraitFields[i]
        ret == Solve("TryDetermineEqualTypes", <<s, f.TypeInTarget, f.Type>>)
    IN IF i > Len(s.caches[cache].TraitFields) THEN Ok(s, 0)
       ELSE IF ret.e # "" \/ ret.r # 0 THEN ret
       ELSE Solve("DetermineByFields", <<ret.s, cache, i + 1>>)

\* TryDetermineEqualFunctions for overload id of trait function f
TryDetermineEqualTypeLists(s, la, lb, k) ==
    IF k > Len(la) THEN Ok(s, 0)
    ELSE LET r == Solve("TryDetermineEqualTypes", <<s, la[k], lb[k]>>)
         IN IF r.e # "" \/ r.r # 0 THEN r ELSE Solve("TryDetermineEqualTypeLists", <<r.s, la, lb, k + 1>>)

TryDetermineEqualFunctions(s, cache, f, id) ==
    LET info == s.caches[cache].TraitFunctions[f]
        overload == At(info.Overloads, id)
        ret == Solve("TryDetermineEqualTypes", <<s, info.TraitReturnType, overload.ReturnType>>)
    IN IF ret.e # "" \/ ret.r # 0 THEN ret
       ELSE Solve("TryDetermineEqualTypeLists", <<ret.s, info.TraitParameterTypes,
                                       overload.ParameterTypes, 1>>)

\* the two loops of TryDetermineConstraintArgument over the trait functions:
\* those with one overload, then (multiple) those with more
DetermineByFunctions(s, cache, f, multiple) ==
    LET info == s.caches[cache].TraitFunctions[f]
        ret == Solve("TryDetermineEqualFunctions", <<s, cache, f,
                                          IF multiple THEN info.CurrentOverload ELSE 0>>)
    IN IF f > Len(s.caches[cache].TraitFunctions) THEN Ok(s, 0)
       ELSE IF ~multiple /\ Len(info.Overloads) = 0 THEN Ok(s, -1)
       ELSE IF (~multiple /\ Len(info.Overloads) = 1) \/ (multiple /\ Len(info.Overloads) > 1)
       THEN IF ret.e # "" \/ ret.r # 0 THEN ret
            ELSE Solve("DetermineByFunctions", <<ret.s, cache, f + 1, multiple>>)
       ELSE Solve("DetermineByFunctions", <<s, cache, f + 1, multiple>>)

\* TryDetermineConstraintArgument (the bundle has CONSTRAINT_EXIST,
\* CONSTRAINT_SAME and CONSTRAINT_TRAIT_ASSEMBLY constraints)
TryDetermineConstraintArgument(s, cache) ==
    LET type == s.caches[cache].Source.Type
        ensured == Solve("EnsureSubConstraintCached", <<s, cache>>)
        resolveMembers == Solve("TryCalculateTraitSubMember", <<ensured.s, cache>>)
        fields == Solve("DetermineByFields", <<resolveMembers.s, cache, 1>>)
        single == Solve("DetermineByFunctions", <<fields.s, cache, 1, FALSE>>)
    IN CASE type = "CONSTRAINT_EXIST" -> Ok(s, 0)
         [] type = "CONSTRAINT_SAME" ->
                IF Len(s.caches[cache].Arguments) # 1
                THEN Throw(s, "ERR_L_PROGRAM: Invalid constraint arguments")
                ELSE Solve("TryDetermineEqualTypes", <<s, s.caches[cache].Arguments[1],
                                            s.caches[cache].Target>>)
         [] type = "CONSTRAINT_TRAIT_ASSEMBLY" ->
                IF ensured.e # "" THEN ensured
                ELSE IF resolveMembers.e # "" \/ resolveMembers.r <= 0 THEN resolveMembers
                ELSE IF fields.e # "" \/ fields.r # 0 THEN fields
                ELSE IF single.e # "" \/ single.r # 0 THEN single
                ELSE Solve("DetermineByFunctions", <<single.s, cache, 1, TRUE>>)
         [] OTHER -> Ok(s, 0)

\* CheckCacheContainsUndetermined
CheckCacheContainsUndetermined(s, cache) ==
    LET a == Solve("IsUndeterminedTypes", <<s, s.caches[cache].Arguments, 1>>)
        u == Solve("IsUndeterminedTypes", <<s, s.caches[cache].TraitFunctionUndetermined, 1>>)
    IN IF a.e # "" \/ a.r THEN a
       ELSE IF u.e # "" \/ u.r THEN u
       ELSE Solve("IsUndeterminedType", <<s, s.caches[cache].Target>>)

\* --- the check loop ---

\* a check is given up as never returning after this many passes of one
\* CheckConstraintCached call
MaxPasses == 6

\* and when the chain of sub-constraint caches has grown to this length
MaxDepth == 4

\* the number of caches from cache up to the one the check was started on
RECURSIVE CacheDepth(_, _)
CacheDepth(s, cache) ==
    IF s.caches[cache].Parent = 0 THEN 1 ELSE 1 + CacheDepth(s, s.caches[cache].Parent)

\* MoveToNextCandidates: r tells whether there is a next combination
MoveChildrenToNextCandidates(s, cache, k) ==
    IF k > Len(s.caches[cache].Children) THEN Ok(s, FALSE)
    ELSE LET x == Solve("MoveToNextCandidates", <<s, s.caches[cache].Children[k]>>)
         IN IF x.r THEN x ELSE Solve("MoveChildrenToNextCandidates", <<x.s, cache, k + 1>>)

\* a loop over the functions of the cache from the first to the last
MoveFunctionsToNextCandidates_Forward(s, cache, i) ==
    LET n == Len(s.caches[cache].TraitFunctions)
        f == s.caches[cache].TraitFunctions[i + 1]
    IN IF i >= n THEN Ok(s, FALSE)
       ELSE IF f.CurrentOverload + 1 < Len(f.Overloads)
       THEN Ok([s EXCEPT !.caches[cache].TraitFunctions[i + 1].CurrentOverload = @ + 1],
               TRUE)
       ELSE Solve("MoveFunctionsToNextCandidates", <<
                [s EXCEPT !.caches[cache].TraitFunctions[i + 1].CurrentOverload = 0],
                cache, i + 1>>)

\* the reverse loop over the functions of the cache: i functions are done
MoveFunctionsToNextCandidates(s, cache, i) ==
    LET n == Len(s.caches[cache].TraitFunctions)
        f == s.caches[cache].TraitFunctions[n - i]
    IN IF i >= n THEN Ok(s, FALSE)
       ELSE IF f.CurrentOverload + 1 < Len(f.Overloads)
       THEN Ok([s EXCEPT !.caches[cache].TraitFunctions[n - i].CurrentOverload = @ + 1],
               TRUE)
       ELSE Solve("MoveFunctionsToNextCandidates", <<
                [s EXCEPT !.caches[cache].TraitFunctions[n - i].CurrentOverload = 0],
                cache, i + 1>>)

MoveToNextCandidates(s, cache) ==
    LET x == Solve("MoveChildrenToNextCandidates", <<s, cache, 1>>)
    IN IF x.r THEN x ELSE Solve("MoveFunctionsToNextCandidates", <<x.s, cache, 0>>)

\* the loop of CheckTraitDetermined over the sub-constraints
CheckSubConstraints(s, cache, k) ==
    IF k > Len(s.caches[cache].Children) THEN Ok(s, TRUE)
    ELSE LET x == Solve("CheckConstraintCachedFrom", <<s, s.caches[cache].Children[k], 0>>)
         IN IF x.e # "" \/ ~x.r THEN x ELSE Solve("CheckSubConstraints", <<x.s, cache, k + 1>>)

\* the loop of CheckTraitDetermined over the functions of the trait
CheckDeterminedTypeListsEqual(s, la, lb, k) ==
    IF k > Len(la) THEN Ok(s, TRUE)
    ELSE LET x == Solve("CheckDeterminedTypesEqual", <<s, la[k], lb[k]>>)
         IN IF x.e # "" \/ ~x.r THEN x ELSE Solve("CheckDeterminedTypeListsEqual", <<x.s, la, lb, k + 1>>)

CheckTraitFunctionsDetermined(s, cache, f) ==
    LET tf == s.caches[cache].TraitFunctions[f]
        overload == At(tf.Overloads, tf.CurrentOverload)
        ret == Solve("CheckDeterminedTypesEqual", <<s, tf.TraitReturnType, overload.ReturnType>>)
        params == Solve("CheckDeterminedTypeListsEqual", <<ret.s, tf.TraitParameterTypes,
                                                overload.ParameterTypes, 1>>)
    IN IF f > Len(s.caches[cache].TraitFunctions) THEN Ok(s, TRUE)
       ELSE IF ret.e # "" \/ ~ret.r THEN ret
       ELSE IF params.e # "" \/ ~params.r THEN params
       ELSE Solve("CheckTraitFunctionsDetermined", <<params.s, cache, f + 1>>)

\* the loop of CheckTraitDetermined over the fields of the trait
CheckTraitFieldsDetermined(s, cache, i) ==
    LET tf == s.caches[cache].TraitFields[i]
        x == Solve("CheckDeterminedTypesEqual", <<s, tf.Type, tf.TypeInTarget>>)
    IN IF i > Len(s.caches[cache].TraitFields) THEN Ok(s, TRUE)
       ELSE IF x.e # "" \/ ~x.r THEN x
       ELSE Solve("CheckTraitFieldsDetermined", <<x.s, cache, i + 1>>)

\* CheckTraitDetermined
CheckTraitDetermined(s, cache) ==
    LET ensured == Solve("EnsureSubConstraintCached", <<s, cache>>)
        resolved == Solve("TryCalculateTraitSubMember", <<ensured.s, cache>>)
        children == Solve("CheckSubConstraints", <<resolved.s, cache, 1>>)
    IN IF ensured.e # "" THEN ensured
       ELSE IF resolved.e # "" THEN resolved
       ELSE IF resolved.r # 1 THEN Ok(resolved.s, FALSE)
       ELSE IF children.e # "" \/ ~children.r THEN children
       ELSE IF /\ children.s.asserts
               /\ children.s.nodes[s.caches[cache].Target].Determined = NoType
            THEN Throw(children.s, "abort")
       ELSE LET fields == Solve("CheckTraitFieldsDetermined", <<children.s, cache, 1>>)
            IN IF fields.e # "" \/ ~fields.r THEN fields
               ELSE Solve("CheckTraitFunctionsDetermined", <<fields.s, cache, 1>>)

\* CheckConstraintDetermined
CheckConstraintDetermined(s, cache) ==
    LET c == s.caches[cache]
        target == Solve("CheckSimplifiedConstraintType", <<s, c.Target>>)
        argument == Solve("CheckSimplifiedConstraintType", <<target.s, c.Arguments[1]>>)
    IN CASE c.Source.Type = "CONSTRAINT_EXIST" ->
                IF Len(c.Arguments) # 0
                THEN Throw(s, "ERR_L_PROGRAM: Invalid constraint arguments")
                ELSE target
         [] c.Source.Type = "CONSTRAINT_SAME" ->
                IF Len(c.Arguments) # 1
                THEN Throw(s, "ERR_L_PROGRAM: Invalid constraint arguments")
                ELSE IF target.e # "" \/ ~target.r THEN target
                ELSE IF argument.e # "" \/ ~argument.r THEN argument
                ELSE Ok(argument.s, argument.s.nodes[c.Target].Determined =
                                        argument.s.nodes[c.Arguments[1]].Determined)
         [] c.Source.Type = "CONSTRAINT_TRAIT_ASSEMBLY" -> Solve("CheckTraitDetermined", <<s, cache>>)
         [] OTHER -> Throw(s, "ERR_L_PROGRAM: Invalid constraint type")

\* the while loop of CheckConstraintCachedSinglePass: r tells whether the
\* loop was left with nothing undetermined
DetermineWhileUndetermined(s, cache) ==
    LET u == Solve("CheckCacheContainsUndetermined", <<s, cache>>)
        check == Solve("TryDetermineConstraintArgument", <<u.s, cache>>)
    IN IF u.e # "" THEN u
       ELSE IF ~u.r THEN Ok(u.s, TRUE)
       ELSE IF check.e # "" THEN check
       ELSE IF check.r = 1 THEN Solve("DetermineWhileUndetermined", <<check.s, cache>>)
       ELSE Ok(check.s, FALSE)

\* CheckConstraintCachedSinglePass
CheckConstraintCachedSinglePass(s, cache) ==
    LET first == Solve("TryDetermineConstraintArgument", <<s, cache>>)
        loop == Solve("DetermineWhileUndetermined", <<first.s, cache>>)
    IN IF first.e # "" THEN first
       ELSE IF first.r = -1 THEN Ok(first.s, FALSE)
       ELSE IF loop.e # "" \/ ~loop.r THEN loop
       ELSE Solve("CheckConstraintDetermined", <<loop.s, cache>>)

\* CheckConstraintCached, after passes passes of its loop
CheckConstraintCachedFrom(s, cache, passes) ==
    LET id == StartBacktrackPoint(s)
        pass == Solve("CheckConstraintCachedSinglePass", <<id.s, cache>>)
        back == DoBacktrack(pass.s, id.r)
        next == Solve("MoveToNextCandidates", <<back.s, cache>>)
    IN IF passes >= MaxPasses THEN Throw(s, "never returns")
       ELSE IF CacheDepth(s, cache) > MaxDepth THEN Throw(s, "stack overflow")
       ELSE IF pass.e # "" THEN pass
       ELSE IF pass.r THEN pass
       ELSE IF back.e # "" THEN back
       ELSE IF next.r THEN Solve("CheckConstraintCachedFrom", <<next.s, cache, passes + 1>>)
       ELSE Ok(next.s, FALSE)

\* CheckConstraintCached
CheckConstraintCached(s, cache) == Solve("CheckConstraintCachedFrom", <<s, cache, 0>>)

\* CheckConstraintsImpl up to the call of CheckConstraintCached: the
\* arguments as CTT_RT objects and the cache of the constraint
CheckConstraintsImpl(s, request) ==
    LET cargs == Solve("LoadedTypeArguments", <<s, request.Arguments, <<>>>>)
        fail == ConstraintFail(cargs.s)
    IN Solve("CreateConstraintCache", <<fail.s, request.Constraint, cargs.r, fail.r>>)

Solve(fn, a) ==
    CASE fn = "CopyConstraintTypes" ->
             CopyConstraintTypes(a[1], a[2], a[3])
      [] fn = "CopyConstraintType" ->
             CopyConstraintType(a[1], a[2])
      [] fn = "GetRefArgument" ->
             GetRefArgument(a[1], a[2], a[3])
      [] fn = "IsUndeterminedTypes" ->
             IsUndeterminedTypes(a[1], a[2], a[3])
      [] fn = "IsUndeterminedType" ->
             IsUndeterminedType(a[1], a[2])
      [] fn = "TrySimplifyConstraintType" ->
             TrySimplifyConstraintType(a[1], a[2], a[3])
      [] fn = "SimplifyArguments" ->
             SimplifyArguments(a[1], a[2], a[3], a[4])
      [] fn = "SimplifyToLoadedType" ->
             SimplifyToLoadedType(a[1], a[2], a[3])
      [] fn = "SimplifyConstraintType" ->
             SimplifyConstraintType(a[1], a[2])
      [] fn = "CheckSimplifiedConstraintType" ->
             CheckSimplifiedConstraintType(a[1], a[2])
      [] fn = "CheckDeterminedTypesEqual" ->
             CheckDeterminedTypesEqual(a[1], a[2], a[3])
      [] fn = "ConstructConstraintTypes" ->
             ConstructConstraintTypes(a[1], a[2], a[3], a[4], a[5], a[6])
      [] fn = "ConstructConstraintType" ->
             ConstructConstraintType(a[1], a[2], a[3], a[4], a[5])
      [] fn = "ConstructConstraintArgumentType" ->
             ConstructConstraintArgumentType(a[1], a[2], a[3], a[4])
      [] fn = "ConstructConstraintTraitType" ->
             ConstructConstraintTraitType(a[1], a[2], a[3])
      [] fn = "ConstructConstraintRefListType" ->
             ConstructConstraintRefListType(a[1], a[2], a[3], a[4])
      [] fn = "CheckArgumentsPossiblyEqual" ->
             CheckArgumentsPossiblyEqual(a[1], a[2], a[3], a[4])
      [] fn = "CheckLoadedPossiblyEqual" ->
             CheckLoadedPossiblyEqual(a[1], a[2], a[3], a[4])
      [] fn = "CheckTypePossiblyEqual" ->
             CheckTypePossiblyEqual(a[1], a[2], a[3])
      [] fn = "TryDetermineEqualArguments" ->
             TryDetermineEqualArguments(a[1], a[2], a[3], a[4])
      [] fn = "TryDetermineEqualLoaded" ->
             TryDetermineEqualLoaded(a[1], a[2], a[3], a[4])
      [] fn = "TryDetermineEqualTypes" ->
             TryDetermineEqualTypes(a[1], a[2], a[3])
      [] fn = "AreConstraintTypeListsEqual" ->
             AreConstraintTypeListsEqual(a[1], a[2], a[3], a[4])
      [] fn = "AreConstraintTypesEqual" ->
             AreConstraintTypesEqual(a[1], a[2], a[3])
      [] fn = "AreConstraintsEqual" ->
             AreConstraintsEqual(a[1], a[2], a[3])
      [] fn = "CreateConstraintCache" ->
             CreateConstraintCache(a[1], a[2], a[3], a[4])
      [] fn = "CheckCircularConstraint" ->
             CheckCircularConstraint(a[1], a[2], a[3])
      [] fn = "CreateSubConstraints" ->
             CreateSubConstraints(a[1], a[2], a[3])
      [] fn = "CreateTraitFields" ->
             CreateTraitFields(a[1], a[2], a[3])
      [] fn = "CreateTraitFunctions" ->
             CreateTraitFunctions(a[1], a[2], a[3])
      [] fn = "EnsureSubConstraintCached" ->
             EnsureSubConstraintCached(a[1], a[2])
      [] fn = "LoadedTypeArguments" ->
             LoadedTypeArguments(a[1], a[2], a[3])
      [] fn = "AdditionalTypeArguments" ->
             AdditionalTypeArguments(a[1], a[2], a[3], a[4])
      [] fn = "LoadTraitFunctionCacheInfo" ->
             LoadTraitFunctionCacheInfo(a[1], a[2], a[3], a[4])
      [] fn = "CheckTypeListsPossiblyEqual" ->
             CheckTypeListsPossiblyEqual(a[1], a[2], a[3], a[4])
      [] fn = "CheckTraitTargetFunctionOverload" ->
             CheckTraitTargetFunctionOverload(a[1], a[2], a[3], a[4], a[5])
      [] fn = "SearchPublicFunctions" ->
             SearchPublicFunctions(a[1], a[2], a[3], a[4])
      [] fn = "ResolveTraitFields" ->
             ResolveTraitFields(a[1], a[2], a[3])
      [] fn = "ResolveTraitFunctions" ->
             ResolveTraitFunctions(a[1], a[2], a[3])
      [] fn = "TryCalculateTraitSubMember" ->
             TryCalculateTraitSubMember(a[1], a[2])
      [] fn = "DetermineByFields" ->
             DetermineByFields(a[1], a[2], a[3])
      [] fn = "TryDetermineEqualTypeLists" ->
             TryDetermineEqualTypeLists(a[1], a[2], a[3], a[4])
      [] fn = "TryDetermineEqualFunctions" ->
             TryDetermineEqualFunctions(a[1], a[2], a[3], a[4])
      [] fn = "DetermineByFunctions" ->
             DetermineByFunctions(a[1], a[2], a[3], a[4])
      [] fn = "TryDetermineConstraintArgument" ->
             TryDetermineConstraintArgument(a[1], a[2])
      [] fn = "CheckCacheContainsUndetermined" ->
             CheckCacheContainsUndetermined(a[1], a[2])
      [] fn = "MoveChildrenToNextCandidates" ->
             MoveChildrenToNextCandidates(a[1], a[2], a[3])
      [] fn = "MoveFunctionsToNextCandidates" ->
             MoveFunctionsToNextCandidates(a[1], a[2], a[3])
      [] fn = "MoveToNextCandidates" ->
             MoveToNextCandidates(a[1], a[2])
      [] fn = "CheckSubConstraints" ->
             CheckSubConstraints(a[1], a[2], a[3])
      [] fn = "CheckDeterminedTypeListsEqual" ->
             CheckDeterminedTypeListsEqual(a[1], a[2], a[3], a[4])
      [] fn = "CheckTraitFunctionsDetermined" ->
             CheckTraitFunctionsDetermined(a[1], a[2], a[3])
      [] fn = "CheckTraitFieldsDetermined" ->
             CheckTraitFieldsDetermined(a[1], a[2], a[3])
      [] fn = "CheckTraitDetermined" ->
             CheckTraitDetermined(a[1], a[2])
      [] fn = "CheckConstraintDetermined" ->
             CheckConstraintDetermined(a[1], a[2])
      [] fn = "DetermineWhileUndetermined" ->
             DetermineWhileUndetermined(a[1], a[2])
      [] fn = "CheckConstraintCachedSinglePass" ->
             CheckConstraintCachedSinglePass(a[1], a[2])
      [] fn = "CheckConstraintCachedFrom" ->
             CheckConstraintCachedFrom(a[1], a[2], a[3])
      [] fn = "CheckConstraintCached" ->
             CheckConstraintCached(a[1], a[2])
      [] fn = "CheckConstraintsImpl" ->
             CheckConstraintsImpl(a[1], a[2])

----------------------------------------------------------------------------
(* CheckConstraintsImpl on a declaration with one constraint, a step of    *)
(* the specification for each step of the top-level CheckConstraintCached: *)
(* the backtrack point, each TryDetermineConstraintArgument call of the    *)
(* pass, CheckConstraintDetermined (the checks of the sub-constraints run  *)
(* inside it), DoBacktrack, MoveToNextCandidates.  A behaviour makes one   *)
(* check, in a build with or without asserts.                              *)

\* the constraints checked: a trait of the bundle, on the first argument of
\* the declaration, with type arguments
TraitRequests ==
    {[Arguments |-> <<x>>,
      Constraint |-> GenericConstraint("declaration", "CONSTRAINT_TRAIT_ASSEMBLY", t,
                                       RefArgument(0), a)] :
        x \in {"I32", "One", "Two", "TwoTwo", "Three", "Method", "Wide"},
        t \in {"Pair", "Missing", "WithMethod", "Loop", "Ping", "Pong", "Outer",
               "AnyChain"},
        a \in {<<RefAny>>, <<RefAssembly("I32", <<>>)>>, <<RefAssembly("I64", <<>>)>>,
               <<RefAny, RefAny>>}}

\* the targets of the constraints on a type made of the first argument: the
\* instantiation Box<T> and the subtype T.Item, each as it is and under
\* REF_TRY
MadeTargets ==
    {RefAssembly("Box", <<RefArgument(0)>>), RefTry(RefAssembly("Box", <<RefArgument(0)>>)),
     RefSubtype("Item", RefArgument(0)), RefTry(RefSubtype("Item", RefArgument(0)))}

MadeRequests ==
    {[Arguments |-> <<x>>, Constraint |-> c] :
        x \in {"I32", "I64", "Two"},
        c \in {GenericConstraint("declaration", "CONSTRAINT_EXIST", "", target, <<>>) :
                    target \in MadeTargets}
              \cup {GenericConstraint("declaration", "CONSTRAINT_SAME", "", target, <<a>>) :
                    target \in MadeTargets,
                    a \in {RefAny, RefAssembly("I32", <<>>)}}
              \cup {GenericConstraint("declaration", "CONSTRAINT_TRAIT_ASSEMBLY", "Pair",
                                      target, <<a>>) :
                    target \in MadeTargets,
                    a \in {RefAny, RefAssembly("I32", <<>>)}}}

Requests == TraitRequests \cup MadeRequests

\* the number of placeholders of the root that are not determined
UndeterminedCount(s) ==
    Cardinality({i \in 1..Len(s.UndeterminedTypes) : s.UndeterminedTypes[i] = NoType})

\* a step of the check has ended: with an exception the check is over
Stepped(x, pc) ==
    IF x.e # "" THEN [x.s EXCEPT !.pc = "done", !.err = x.e]
    ELSE [x.s EXCEPT !.pc = pc]

solverFrame == <<loaderVars, lastCall, held, crashed, log, assemblies, loaderLock,
                 threads, resolution, declCall>>

\* a call of CheckConstraintsImpl with one constraint, in a build with or
\* without assertions
BeginCheck(asserts, request) ==
    /\ solver.pc = "none"
    /\ solver' = Stepped(Solve("CheckConstraintsImpl", <<
                             [pc |-> "start", request |-> request, asserts |-> asserts,
                              nodes |-> <<>>, UndeterminedTypes |-> <<>>,
                              BacktrackList |-> <<>>, BacktrackListSize |-> <<>>,
                              Size |-> 0, caches |-> <<>>, id |-> 0, passes |-> 0,
                              result |-> FALSE, err |-> "",
                              call |-> [ret |-> 0, before |-> 0, after |-> 0,
                                        loop |-> FALSE],
                              point |-> <<>>], request>>), "start")
    /\ UNCHANGED solverFrame

\* the top of the loop of CheckConstraintCached: StartBacktrackPoint
StartPass ==
    /\ solver.pc = "start"
    /\ solver.passes < MaxPasses
    /\ LET id == StartBacktrackPoint(solver)
       IN solver' = [id.s EXCEPT !.pc = "first", !.id = id.r, !.passes = @ + 1,
                                 !.point = solver]
    /\ UNCHANGED solverFrame

\* the loop has made MaxPasses passes and goes on
NeverReturns ==
    /\ solver.pc = "start"
    /\ solver.passes >= MaxPasses
    /\ solver' = [solver EXCEPT !.pc = "done", !.err = "never returns"]
    /\ UNCHANGED solverFrame

\* a call of TryDetermineConstraintArgument on the cache, with the numbers of
\* undetermined placeholders before and after it
Called(x, loop) ==
    [x.s EXCEPT !.call = [ret |-> x.r, before |-> UndeterminedCount(solver),
                          after |-> UndeterminedCount(x.s), loop |-> loop]]

\* CheckConstraintCachedSinglePass: the first TryDetermineConstraintArgument
FirstCall ==
    /\ solver.pc = "first"
    /\ LET x == Solve("TryDetermineConstraintArgument", <<solver, 1>>)
       IN solver' = IF x.e # "" THEN Stepped(x, "done")
                    ELSE [Called(x, FALSE) EXCEPT
                              !.pc = IF x.r = -1 THEN "backtrack" ELSE "loop"]
    /\ UNCHANGED solverFrame

\* CheckConstraintCachedSinglePass: a turn of the while loop
LoopCall ==
    /\ solver.pc = "loop"
    /\ LET u == Solve("CheckCacheContainsUndetermined", <<solver, 1>>)
           x == Solve("TryDetermineConstraintArgument", <<u.s, 1>>)
       IN solver' = IF u.e # "" THEN Stepped(u, "done")
                    ELSE IF ~u.r THEN [u.s EXCEPT !.pc = "determined"]
                    ELSE IF x.e # "" THEN Stepped(x, "done")
                    ELSE [Called(x, TRUE) EXCEPT
                              !.pc = IF x.r = 1 THEN "loop" ELSE "backtrack"]
    /\ UNCHANGED solverFrame

\* CheckConstraintCachedSinglePass: CheckConstraintDetermined, and the return
\* of CheckConstraintCached when it holds
Determine ==
    /\ solver.pc = "determined"
    /\ LET x == Solve("CheckConstraintDetermined", <<solver, 1>>)
       IN solver' = IF x.e # "" THEN Stepped(x, "done")
                    ELSE IF x.r THEN [x.s EXCEPT !.pc = "done", !.result = TRUE]
                    ELSE [x.s EXCEPT !.pc = "backtrack"]
    /\ UNCHANGED solverFrame

\* CheckConstraintCached after a failed pass: DoBacktrack(id)
Backtrack ==
    /\ solver.pc = "backtrack"
    /\ solver' = Stepped(DoBacktrack(solver, solver.id), "move")
    /\ UNCHANGED solverFrame

\* the condition of the loop of CheckConstraintCached: MoveToNextCandidates,
\* and the return of CheckConstraintCached when it is false
Move ==
    /\ solver.pc = "move"
    /\ LET x == Solve("MoveToNextCandidates", <<solver, 1>>)
       IN solver' = IF x.r THEN [x.s EXCEPT !.pc = "start"]
                    ELSE [x.s EXCEPT !.pc = "done", !.result = FALSE]
    /\ UNCHANGED solverFrame

InitSolver == assemblies = "Layout" /\ Start

NextSolver ==
    \/ \E asserts \in BOOLEAN, request \in Requests : BeginCheck(asserts, request)
    \/ StartPass
    \/ NeverReturns
    \/ FirstCall
    \/ LoopCall
    \/ Determine
    \/ Backtrack
    \/ Move

SpecSolver == InitSolver /\ [][NextSolver]_vars

\* --- the exports of a checked constraint ---

\* SolveExport(fn, a): the call of the function fn of the export search with the
\* argument list a
RECURSIVE SolveExport(_, _)

\* the kinds of RefList entries as numbers, and the masks of the kind
REF_CONSTRAINT == 6
REF_ASSEMBLY == 4
REF_REFTYPES == 127
REF_FORCELOAD == 128

\* Type & REF_REFTYPES
RefKind(type) == type % (REF_REFTYPES + 1)

\* name.find('/'): the position of the first slash from 0, -1 for npos
FindSlash(name) ==
    LET hits == {k \in 1..Len(name) : name[k] = "/"}
    IN IF hits = {} THEN -1 ELSE (CHOOSE k \in hits : \A j \in hits : k <= j) - 1

\* name.substr(pos)
Substr(name, pos) == SubSeq(name, pos + 1, Len(name))

\* name.compare(0, prefix.length(), prefix) == 0
ComparePrefix(name, prefix) ==
    SubSeq(name, 1, IF Len(name) < Len(prefix) THEN Len(name) ELSE Len(prefix)) = prefix

TargetExportName == <<".", "t", "a", "r", "g", "e", "t">>

\* nullptr of RuntimeFunction*
NoFunction == [Type |-> NoType, Index |-> 0]

\* the search of the three FindConstraintExport functions for the child whose
\* constraint has the export name: r is the child, 0 if there is none.  The
\* caches of a trait whose sub-constraints are not created fail the assert.
FindExportChild(s, cache, childName) ==
    LET constraintList == ConstraintTraits[s.caches[cache].Trait].Constraints
        children == s.caches[cache].Children
        hits == {i \in 1..Len(children) : constraintList[i].ExportName = childName}
    IN IF s.asserts /\ Len(constraintList) # Len(children) THEN Throw(s, "abort")
       ELSE IF hits = {} THEN Ok(s, 0)
       ELSE Ok(s, children[CHOOSE i \in hits : \A j \in hits : i <= j])

\* the loop of FindConstraintExportType over the types the trait exports,
\* from type k on

\* the type k with the export name, simplified (x is what
\* SimplifyConstraintType gave for the object t)
FindTraitExportTypeSimplified(cache, name, k, t, x) ==
    LET simplified == x.s.nodes[t]
    IN IF x.e # "" THEN x
       ELSE IF x.s.asserts /\ simplified.CType \notin {"CTT_RT", "CTT_EMPTY"}
       THEN Throw(x.s, "abort")
       ELSE IF simplified.CType = "CTT_RT"
       THEN IF x.s.asserts /\ simplified.Determined = NoType THEN Throw(x.s, "abort")
            ELSE Ok(x.s, simplified.Determined)
       ELSE SolveExport("FindTraitExportType", <<x.s, cache, name, k + 1>>)

\* the type k with the export name (ct is what ConstructConstraintTraitType
\* gave for its reference)
FindTraitExportTypeConstructed(cache, name, k, ct) ==
    IF ct.e # "" THEN ct
    ELSE FindTraitExportTypeSimplified(cache, name, k, ct.r,
                                       Solve("SimplifyConstraintType", <<ct.s, ct.r>>))

FindTraitExportType(s, cache, name, k) ==
    LET traitTypes == TraitMembers(s.caches[cache].Trait).Types
    IN IF k > Len(traitTypes) THEN Ok(s, NoType)
       ELSE IF traitTypes[k].ExportName # name THEN SolveExport("FindTraitExportType", <<s, cache, name, k + 1>>)
       ELSE FindTraitExportTypeConstructed(
                cache, name, k, Solve("ConstructConstraintTraitType", <<s, cache, traitTypes[k].Index>>))

\* FindConstraintExportType
FindConstraintExportType(s, cache, name) ==
    LET slash == FindSlash(name)
        trait == s.caches[cache].Source.Type = "CONSTRAINT_TRAIT_ASSEMBLY"
        target == s.nodes[s.caches[cache].Target].Determined
        child == FindExportChild(s, cache, SubSeq(name, 1, slash))
    IN IF Len(name) = 0 THEN Ok(s, NoType)
       ELSE IF slash = 0 THEN Ok(s, NoType)
       ELSE IF slash = -1
       THEN IF name = TargetExportName
            THEN IF s.asserts /\ target = NoType THEN Throw(s, "abort") ELSE Ok(s, target)
            ELSE IF trait THEN SolveExport("FindTraitExportType", <<s, cache, name, 1>>)
            ELSE Ok(s, NoType)
       ELSE IF ~trait THEN Ok(s, NoType)
       ELSE IF child.e # "" THEN child
       ELSE IF child.r = 0 THEN Ok(s, NoType)
       ELSE SolveExport("FindConstraintExportType", <<s, child.r, Substr(name, slash + 1)>>)

\* LoadRefFunction({target, tt->Generic}, index): the function of the target
\* that entry index of the function references of its template names
LoadConstraintRefFunction(s, target, index) == Ok(s, [Type |-> target, Index |-> index])

\* a FindTraitExportFunction that takes the first overload of the function
FindTraitExportFunction_FirstOverload(s, cache, name) ==
    LET functions == ConstraintTraits[s.caches[cache].Trait].Functions
        hits == {i \in 1..Len(functions) : functions[i].ExportName = name}
        i == CHOOSE i \in hits : \A j \in hits : i <= j
        tf == s.caches[cache].TraitFunctions[i]
        index == At(tf.Overloads, 0).Index
        target == s.nodes[s.caches[cache].Target].Determined
    IN IF hits = {} THEN Ok(s, NoFunction)
       ELSE IF target = NoType THEN Throw(s, IF s.asserts THEN "abort" ELSE "SIGSEGV")
       ELSE LoadConstraintRefFunction(s, target, index)

\* the loop of FindConstraintExportFunction over the functions of the trait:
\* the first function with the export name, in the overload the cache has
\* selected
FindTraitExportFunction(s, cache, name) ==
    LET functions == ConstraintTraits[s.caches[cache].Trait].Functions
        hits == {i \in 1..Len(functions) : functions[i].ExportName = name}
        i == CHOOSE i \in hits : \A j \in hits : i <= j
        tf == s.caches[cache].TraitFunctions[i]
        index == At(tf.Overloads, tf.CurrentOverload).Index
        target == s.nodes[s.caches[cache].Target].Determined
    IN IF hits = {} THEN Ok(s, NoFunction)
       ELSE IF target = NoType THEN Throw(s, IF s.asserts THEN "abort" ELSE "SIGSEGV")
       ELSE LoadConstraintRefFunction(s, target, index)

\* FindConstraintExportFunction
FindConstraintExportFunction(s, cache, name) ==
    LET slash == FindSlash(name)
        trait == s.caches[cache].Source.Type = "CONSTRAINT_TRAIT_ASSEMBLY"
        child == FindExportChild(s, cache, SubSeq(name, 1, slash))
    IN IF Len(name) = 0 THEN Ok(s, NoFunction)
       ELSE IF slash = 0 THEN Ok(s, NoFunction)
       ELSE IF ~trait THEN Ok(s, NoFunction)
       ELSE IF slash = -1 THEN SolveExport("FindTraitExportFunction", <<s, cache, name>>)
       ELSE IF child.e # "" THEN child
       ELSE IF child.r = 0 THEN Ok(s, NoFunction)
       ELSE SolveExport("FindConstraintExportFunction", <<s, child.r, Substr(name, slash + 1)>>)

\* a FindTraitExportField that gives the position of the field in the trait
FindTraitExportField_Position(s, cache, name) ==
    LET fields == TraitMembers(s.caches[cache].Trait).Fields
        hits == {i \in 1..Len(fields) : fields[i].ExportName = name}
        i == CHOOSE i \in hits : \A j \in hits : i <= j
    IN IF hits = {} THEN Ok(s, -1)
       ELSE Ok(s, i - 1)

\* the loop of FindConstraintExportField over the fields of the trait: the
\* FieldIndex of the first field with the export name, SIZE_MAX (-1) for
\* none
FindTraitExportField(s, cache, name) ==
    LET fields == TraitMembers(s.caches[cache].Trait).Fields
        hits == {i \in 1..Len(fields) : fields[i].ExportName = name}
        i == CHOOSE i \in hits : \A j \in hits : i <= j
    IN IF hits = {} THEN Ok(s, -1)
       ELSE Ok(s, s.caches[cache].TraitFields[i].FieldIndex)

\* FindConstraintExportField
FindConstraintExportField(s, cache, name) ==
    LET slash == FindSlash(name)
        trait == s.caches[cache].Source.Type = "CONSTRAINT_TRAIT_ASSEMBLY"
        child == FindExportChild(s, cache, SubSeq(name, 1, slash))
    IN IF Len(name) = 0 THEN Ok(s, -1)
       ELSE IF slash = 0 THEN Ok(s, -1)
       ELSE IF ~trait THEN Ok(s, -1)
       ELSE IF slash = -1 THEN SolveExport("FindTraitExportField", <<s, cache, name>>)
       ELSE IF child.e # "" THEN child
       ELSE IF child.r = 0 THEN Ok(s, -1)
       ELSE SolveExport("FindConstraintExportField", <<s, child.r, Substr(name, slash + 1)>>)

\* an entry of the ConstraintExportList: Value is the Type, Function or Field
\* of the entry
ConstraintExportListEntry(entryType, index, value) ==
    [EntryType |-> entryType, Index |-> index, Value |-> value]

\* one of the three export loops of CheckConstraintsImpl for the constraint
\* with the cache c: the entries of the list (g.Types, g.Functions, g.Fields)
\* from position i on
ExportEntries(s, g, c, prefix, entryType, i) ==
    LET list == CASE entryType = "CONSTRAINT_EXPORT_TYPE" -> g.Types
                  [] entryType = "CONSTRAINT_EXPORT_FUNCTION" -> g.Functions
                  [] OTHER -> g.Fields
        name == At(g.NamesList, At(list, i).Index)
        rest == Substr(name, Len(prefix))
        found == CASE entryType = "CONSTRAINT_EXPORT_TYPE" ->
                        SolveExport("FindConstraintExportType", <<s, c, rest>>)
                   [] entryType = "CONSTRAINT_EXPORT_FUNCTION" ->
                        SolveExport("FindConstraintExportFunction", <<s, c, rest>>)
                   [] OTHER -> SolveExport("FindConstraintExportField", <<s, c, rest>>)
        entry == ConstraintExportListEntry(entryType, i, found.r)
    IN IF i >= Len(list) THEN Ok(s, TRUE)
       ELSE IF RefKind(At(list, i).Type) # REF_CONSTRAINT
       THEN SolveExport("ExportEntries", <<s, g, c, prefix, entryType, i + 1>>)
       ELSE IF ~ComparePrefix(name, prefix)
       THEN SolveExport("ExportEntries", <<s, g, c, prefix, entryType, i + 1>>)
       ELSE IF found.e # "" THEN found
       ELSE IF found.r = (CASE entryType = "CONSTRAINT_EXPORT_TYPE" -> NoType
                            [] entryType = "CONSTRAINT_EXPORT_FUNCTION" -> NoFunction
                            [] OTHER -> -1)
       THEN SolveExport("ExportEntries", <<found.s, g, c, prefix, entryType, i + 1>>)
       ELSE SolveExport("ExportEntries", <<[found.s EXCEPT !.exportList = Append(@, entry)],
                          g, c, prefix, entryType, i + 1>>)

\* the exports of the constraint with the cache c, if the caller gave an
\* export list
ExportConstraint(s, g, c, prefix) ==
    LET exportedTypes == SolveExport("ExportEntries", <<s, g, c, prefix, "CONSTRAINT_EXPORT_TYPE", 0>>)
        functions == SolveExport("ExportEntries", <<exportedTypes.s, g, c, prefix, "CONSTRAINT_EXPORT_FUNCTION", 0>>)
    IN IF ~s.request.WantsExports THEN Ok(s, TRUE)
       ELSE IF exportedTypes.e # "" THEN exportedTypes
       ELSE IF functions.e # "" THEN functions
       ELSE SolveExport("ExportEntries", <<functions.s, g, c, prefix, "CONSTRAINT_EXPORT_FIELD", 0>>)

\* the loop of CheckConstraintsImpl over the constraints of the declaration,
\* from constraint k on; checked lists the caches of the constraints that
\* have passed

\* the end of a turn of the loop: root.Clear() and the next constraint
\* (exported is what the export loops gave)
CheckConstraintExported(g, cargs, k, exported) ==
    IF exported.e # "" THEN exported
    ELSE SolveExport("CheckConstraintsFrom", <<[exported.s EXCEPT !.Size = 0, !.BacktrackList = <<>>,
                                                 !.BacktrackListSize = <<>>],
                              g, cargs, k + 1>>)

\* the turn after the check of the cache c (passed is what
\* CheckConstraintCached gave): return false, or the exports
CheckConstraintPassed(g, cargs, k, c, passed) ==
    IF passed.e # "" \/ ~passed.r THEN passed
    ELSE CheckConstraintExported(
             g, cargs, k,
             SolveExport("ExportConstraint", <<[passed.s EXCEPT !.checked = Append(@, c)], g, c,
                              Append(g.Constraints[k].ExportName, "/")>>))

\* the turn after CreateConstraintCache (c is what it gave)
CheckConstraintCreated(g, cargs, k, c) ==
    IF c.e # "" THEN c
    ELSE CheckConstraintPassed(g, cargs, k, c.r, Solve("CheckConstraintCached", <<c.s, c.r>>))

CheckConstraintsFrom(s, g, cargs, k) ==
    LET fail == ConstraintFail(s)
    IN IF k > Len(g.Constraints) THEN Ok(s, TRUE)
       ELSE CheckConstraintCreated(
                g, cargs, k, Solve("CreateConstraintCache", <<fail.s, g.Constraints[k], cargs, fail.r>>))

\* the call with the arguments as CTT_RT objects (cargs is what the loops of
\* lines 15-22 gave)
CheckConstraintsLoaded(request, cargs) ==
    SolveExport("CheckConstraintsFrom", <<cargs.s, request.Declaration, cargs.r, 1>>)

\* CheckConstraints: CheckConstraintsImpl on the declaration g of the request
\* with the arguments of the request
CheckConstraints(s, request) ==
    CheckConstraintsLoaded(request, Solve("LoadedTypeArguments", <<s, request.Arguments, <<>>>>))

SolveExport(fn, a) ==
    CASE fn = "FindTraitExportType" ->
             FindTraitExportType(a[1], a[2], a[3], a[4])
      [] fn = "FindConstraintExportType" ->
             FindConstraintExportType(a[1], a[2], a[3])
      [] fn = "FindTraitExportFunction" ->
             FindTraitExportFunction(a[1], a[2], a[3])
      [] fn = "FindConstraintExportFunction" ->
             FindConstraintExportFunction(a[1], a[2], a[3])
      [] fn = "FindTraitExportField" ->
             FindTraitExportField(a[1], a[2], a[3])
      [] fn = "FindConstraintExportField" ->
             FindConstraintExportField(a[1], a[2], a[3])
      [] fn = "ExportEntries" ->
             ExportEntries(a[1], a[2], a[3], a[4], a[5], a[6])
      [] fn = "ExportConstraint" ->
             ExportConstraint(a[1], a[2], a[3], a[4])
      [] fn = "CheckConstraintsFrom" ->
             CheckConstraintsFrom(a[1], a[2], a[3], a[4])
      [] fn = "CheckConstraints" ->
             CheckConstraints(a[1], a[2])

----------------------------------------------------------------------------
(* Claims about the check of one constraint (SpecSolver).                  *)
----------------------------------------------------------------------------

\* the combinations of overload indices of the functions of cache 1
Combinations(s) ==
    LET fs == s.caches[1].TraitFunctions
    IN {c \in [DOMAIN fs -> {0} \cup UNION {0..(Len(fs[i].Overloads) - 1) :
                                                i \in DOMAIN fs}] :
           \A i \in DOMAIN fs :
               c[i] = 0 \/ c[i] < Len(fs[i].Overloads)}

\* s as it is at the backtrack point of a pass over combination c: a new
\* backtrack point, no placeholder determined, the indices of c
AtBacktrackPoint(s, c) ==
    [StartBacktrackPoint(s).s EXCEPT
        !.UndeterminedTypes = [u \in DOMAIN s.UndeterminedTypes |-> NoType],
        !.caches[1].TraitFunctions =
            [i \in DOMAIN s.caches[1].TraitFunctions |->
                [s.caches[1].TraitFunctions[i] EXCEPT !.CurrentOverload = c[i]]]]

\* the single pass over combination c from s succeeds
PassSucceeds(s, c) ==
    LET x == CheckConstraintCachedSinglePass(AtBacktrackPoint(s, c), 1)
    IN x.e = "" /\ x.r

\* C23: CheckConstraintCached returns true exactly when the single pass over
\* some combination of overload indices succeeds from the state at the
\* backtrack point, whatever the passes that failed before it have done.
\* The combinations are those of the functions of the cache itself: the
\* statement is made of the checks whose cache has no sub-constraint.
C23_SucceedsIffSomeCombination ==
    (/\ solver.pc = "done"
     /\ solver.err = ""
     /\ solver.caches[1].Children = <<>>) =>
        (solver.result <=> \E c \in Combinations(solver.point) :
                               PassSucceeds(solver.point, c))

\* the top cache is of a trait constraint on a determined target, and the
\* search of the target's public functions has stopped at a function of the
\* trait for which no overload of the target survives
NoSurvivingOverload(s) ==
    /\ s.pc # "none"
    /\ Len(s.caches) >= 1
    /\ s.caches[1].Source.Type = "CONSTRAINT_TRAIT_ASSEMBLY"
    /\ s.caches[1].TraitCacheCreated
    /\ ~s.caches[1].TraitMemberResolved
    /\ s.nodes[s.caches[1].Target].CType = "CTT_RT"
    /\ \E i \in DOMAIN s.caches[1].TraitFunctions :
           /\ s.caches[1].TraitFunctions[i].Overloads = <<>>
           /\ \A j \in 1..(i - 1) : s.caches[1].TraitFunctions[j].Overloads # <<>>

\* C24: when a function of the trait has no surviving overload on the
\* determined target, the check of the constraint comes to an end and its
\* result is false, whatever the numbers of overloads of the other functions
C24_NoOverloadFails ==
    (solver.pc = "done" /\ NoSurvivingOverload(solver)) =>
        (solver.err = "" /\ ~solver.result)

\* a pass is under way and TryDetermineConstraintArgument has been called in
\* it
InPass(s) == s.pc \in {"loop", "determined", "backtrack"}

\* the original statement of C25: every call of
\* TryDetermineConstraintArgument in a pass that returns 1 leaves strictly
\* fewer undetermined placeholders than there were before it
C25_EveryCallDetermines ==
    (InPass(solver) /\ solver.call.ret = 1) =>
        solver.call.after < solver.call.before

\* the placeholders that are determined in s are determined in t, with the
\* same types
StayDetermined(s, t) ==
    \A u \in DOMAIN s.UndeterminedTypes :
        s.UndeterminedTypes[u] # NoType =>
            /\ u \in DOMAIN t.UndeterminedTypes
            /\ t.UndeterminedTypes[u] = s.UndeterminedTypes[u]

\* C25: within a pass every call of TryDetermineConstraintArgument made by
\* the while loop that returns 1 leaves strictly fewer undetermined
\* placeholders than there were before it (the first call of the pass makes
\* the function list and may add placeholders), and no step turns a
\* determined placeholder back into an undetermined one; so the loop ends
C25_LoopCallsDetermine ==
    [][(solver.pc \notin {"none", "done"} /\ solver'.pc # "none") =>
           /\ (InPass(solver') /\ solver'.call.loop /\ solver'.call.ret = 1)
                  => solver'.call.after < solver'.call.before
           /\ StayDetermined(solver, solver')]_vars

\* a call of the while loop has returned 1 and determined a placeholder, in
\* a pass whose first call had determined another
C25_Witness ==
    /\ InPass(solver)
    /\ solver.call.loop
    /\ solver.call.ret = 1
    /\ solver.call.after = 0
    /\ solver.call.before = 1
    /\ Len(solver.UndeterminedTypes) = 2

\* the objects a and b of root s have the same value: CType, placeholder,
\* runtime type, template or subtype name, and arguments
RECURSIVE SameConstraintType(_, _, _)
SameConstraintType(s, a, b) ==
    LET x == s.nodes[a]
        y == s.nodes[b]
        SameList(xs, ys) ==
            /\ Len(xs) = Len(ys)
            /\ \A i \in DOMAIN xs : SameConstraintType(s, xs[i], ys[i])
    IN /\ x.CType = y.CType
       /\ CASE x.CType = "CTT_ANY" -> x.Undetermined = y.Undetermined
            [] x.CType = "CTT_RT" -> x.Determined = y.Determined
            [] x.CType = "CTT_GENERIC" ->
                   /\ x.TypeTemplateIndex = y.TypeTemplateIndex
                   /\ SameList(x.Args, y.Args)
            [] x.CType = "CTT_SUBTYPE" ->
                   /\ x.SubtypeName = y.SubtypeName
                   /\ SameList(x.ParentType, y.ParentType)
                   /\ SameList(x.Args, y.Args)
            [] OTHER -> TRUE

\* the caches above cache c in its chain
RECURSIVE Ancestors(_, _)
Ancestors(s, c) ==
    IF s.caches[c].Parent = 0 THEN {}
    ELSE {s.caches[c].Parent} \cup Ancestors(s, s.caches[c].Parent)

\* cache c is equal to a cache above it: the same source constraint, check
\* arguments of the same value
EqualsAncestor(s, c) ==
    \E a \in Ancestors(s, c) :
        /\ s.caches[a].Source = s.caches[c].Source
        /\ Len(s.caches[a].CheckArguments) = Len(s.caches[c].CheckArguments)
        /\ \A i \in DOMAIN s.caches[c].CheckArguments :
               SameConstraintType(s, s.caches[a].CheckArguments[i],
                                  s.caches[c].CheckArguments[i])

\* C26: a sub-constraint, at whatever depth, that is equal to a constraint
\* above it in its chain ends the check with ERR_L_CIRCULAR, and the chains
\* of sub-constraint caches stay bounded
C26_CircularConstraint ==
    solver.pc \in {"start", "first", "loop", "determined", "backtrack", "move", "done"} =>
        /\ (\E c \in DOMAIN solver.caches : EqualsAncestor(solver, c)) =>
               /\ solver.pc = "done"
               /\ solver.err = "ERR_L_CIRCULAR: Circular constraint check"
        /\ solver.err # "stack overflow"
        /\ \A c \in DOMAIN solver.caches : CacheDepth(solver, c) <= MaxDepth

\* the check has ended with ERR_L_CIRCULAR on a sub-constraint that is equal
\* to a constraint two levels above it, not to its parent
C26_Witness ==
    /\ solver.pc = "done"
    /\ solver.err = "ERR_L_CIRCULAR: Circular constraint check"
    /\ \E c \in DOMAIN solver.caches :
           /\ EqualsAncestor(solver, c)
           /\ solver.caches[c].Source # solver.caches[solver.caches[c].Parent].Source

\* the target of the top cache carries the TRY mark and has become CTT_FAIL
TryTargetFailed(s) ==
    /\ s.pc \in {"first", "loop", "determined", "backtrack", "move", "done"}
    /\ s.nodes[s.caches[1].Target].TryArgumentConstraint
    /\ s.nodes[s.caches[1].Target].CType = "CTT_FAIL"

\* C27: once a Generic or Subtype object with the TRY mark has become
\* CTT_FAIL, because the template's constraints reject its arguments or the
\* subtype is not found, the check goes on to return false: no assertion
\* fails and nothing is thrown; the errors for rejected arguments and for a
\* missing subtype are raised for objects without the TRY mark only
C27_TryFailsQuietly ==
    /\ TryTargetFailed(solver) => (solver.err = "" /\ ~solver.result)
    /\ (/\ solver.pc = "done"
        /\ solver.err \in {"ERR_L_GENERIC: Invalid generic arguments",
                           "ERR_L_PROGRAM: Invalid subtype constraint"})
           => solver.request.Constraint.Target.k # "REF_TRY"

----------------------------------------------------------------------------
(* MoveToNextCandidates (RuntimeLoaderConstraint.h 922-947) on its own: a  *)
(* tree of caches whose functions have their overloads listed and their    *)
(* CurrentOverload at 0, and the calls of MoveToNextCandidates on the top  *)
(* cache up to the first that returns false.  visited counts the index     *)
(* vectors the tree has gone through, before is the vector before the last *)
(* call and ret the result of that call.                                   *)
----------------------------------------------------------------------------

MaxCaches == 3
MaxWheels == 3
MaxOverloads == 2

\* the trees of n caches: parent[c] is the cache above cache c, cache 1 is
\* the top, and the children of a cache are in the order of their numbers
CacheTrees(n) == {parent \in [2..n -> 1..n] : \A c \in 2..n : parent[c] < c}

\* the ways to give w functions to n caches: owner[i] is the cache of
\* function i, and the functions of a cache are in the order of their numbers
FunctionOwners(n, w) ==
    {owner \in [1..w -> 1..n] : \A i \in 1..(w - 1) : owner[i] <= owner[i + 1]}

\* the children of cache c in order
RECURSIVE ChildrenOf(_, _, _, _)
ChildrenOf(parent, n, c, k) ==
    IF k > n THEN <<>>
    ELSE IF parent[k] = c THEN <<k>> \o ChildrenOf(parent, n, c, k + 1)
    ELSE ChildrenOf(parent, n, c, k + 1)

\* the index vector of the tree
CurrentOverloads(caches) ==
    [c \in DOMAIN caches |->
        [i \in DOMAIN caches[c].TraitFunctions |->
            caches[c].TraitFunctions[i].CurrentOverload]]

\* a tree after the overload lists are made, before the first pass: counts[i]
\* is the number of overloads of function i
NewCandidates(n, parent, owner, counts) ==
    /\ solver = NoSolver
    /\ LET Own(c) == {i \in DOMAIN owner : owner[i] = c}
           First(c) == CHOOSE i \in Own(c) : \A j \in Own(c) : i <= j
           caches == [c \in 1..n |->
                         [Children |-> ChildrenOf(parent, n, c, c + 1),
                          TraitFunctions |->
                              [j \in 1..Cardinality(Own(c)) |->
                                  [Overloads |->
                                       [o \in 1..counts[First(c) + j - 1] |-> o],
                                   CurrentOverload |-> 0]]]]
       IN solver' = [pc |-> "candidates", caches |-> caches, calls |-> 0,
                     ret |-> TRUE,
                     before |-> CurrentOverloads(caches),
                     visited |-> 1]
    /\ UNCHANGED solverFrame

\* the condition of the loop of CheckConstraintCached
NextCandidates ==
    /\ solver.pc = "candidates"
    /\ solver.ret
    /\ LET x == MoveToNextCandidates(solver, 1)
       IN solver' = [x.s EXCEPT !.ret = x.r, !.calls = @ + 1,
                                !.before = CurrentOverloads(solver.caches),
                                !.visited = IF x.r THEN @ + 1 ELSE @]
    /\ UNCHANGED solverFrame

NextOdometer ==
    \/ /\ solver = NoSolver
       /\ \E n \in 1..MaxCaches, w \in 0..MaxWheels :
             \E parent \in CacheTrees(n), owner \in FunctionOwners(n, w),
                counts \in [1..w -> 0..MaxOverloads] :
                NewCandidates(n, parent, owner, counts)
    \/ NextCandidates

SpecCandidates == InitSolver /\ [][NextOdometer]_vars

\* the number of values the index of function f takes
Radix(f) == IF Len(f.Overloads) = 0 THEN 1 ELSE Len(f.Overloads)

\* the functions <<cache, i>> below cache c from the one that advances first
\* to the one that advances last: those of the children in order, then the
\* cache's own from the last to the first
RECURSIVE Wheels(_, _)
RECURSIVE ChildWheels(_, _, _)
Wheels(caches, c) ==
    LET n == Len(caches[c].TraitFunctions)
    IN ChildWheels(caches, c, 1) \o [j \in 1..n |-> <<c, n + 1 - j>>]

ChildWheels(caches, c, k) ==
    IF k > Len(caches[c].Children) THEN <<>>
    ELSE Wheels(caches, caches[c].Children[k]) \o ChildWheels(caches, c, k + 1)

WheelRadix(caches, w) == Radix(caches[w[1]].TraitFunctions[w[2]])

\* the product of the radices of the first j wheels
RECURSIVE RadixProduct(_, _, _)
RadixProduct(caches, ws, j) ==
    IF j = 0 THEN 1 ELSE WheelRadix(caches, ws[j]) * RadixProduct(caches, ws, j - 1)

\* the k-th index vector in the order of the wheels, counting from 0
Combination(caches, k) ==
    LET ws == Wheels(caches, 1)
    IN [c \in DOMAIN caches |->
           [i \in DOMAIN caches[c].TraitFunctions |->
               LET j == CHOOSE j \in 1..Len(ws) : ws[j] = <<c, i>>
               IN (k \div RadixProduct(caches, ws, j - 1)) % WheelRadix(caches, ws[j])]]

\* every index is the last of its function
AllAtLast(caches, v) ==
    \A c \in DOMAIN caches : \A i \in DOMAIN caches[c].TraitFunctions :
        v[c][i] = Radix(caches[c].TraitFunctions[i]) - 1

\* C29: from all indices at 0 the calls of MoveToNextCandidates go through
\* the combinations of overload indices of the cache and its descendants in
\* the order of an odometer whose fastest wheels are the descendants' and
\* whose own wheels run from the last function to the first, each
\* combination once; a call returns false exactly when every index was at
\* its last value, and then every index is 0 again after all combinations
\* have been visited
C29_MoveToNextCandidates ==
    solver.pc = "candidates" =>
        LET ws == Wheels(solver.caches, 1)
        IN /\ solver.ret =>
                  CurrentOverloads(solver.caches)
                      = Combination(solver.caches, solver.visited - 1)
           /\ solver.visited <= RadixProduct(solver.caches, ws, Len(ws))
           /\ solver.calls > 0 =>
                  (~solver.ret <=> AllAtLast(solver.caches, solver.before))
           /\ ~solver.ret =>
                  /\ solver.visited = RadixProduct(solver.caches, ws, Len(ws))
                  /\ CurrentOverloads(solver.caches) = Combination(solver.caches, 0)

\* the calls have gone through the combinations of a top cache with two
\* functions of two overloads and a sub-constraint with such a function,
\* and the last call has returned false
C29_Witness ==
    /\ solver.pc = "candidates"
    /\ ~solver.ret
    /\ solver.visited >= 8
    /\ Len(solver.caches) >= 2
    /\ Len(solver.caches[1].TraitFunctions) = 2
    /\ \E c \in 2..Len(solver.caches) : Len(solver.caches[c].TraitFunctions) = 1

----------------------------------------------------------------------------
(* The deduction log of the root (RuntimeLoaderConstraint.h 183-200 and    *)
(* 282-311) on its own.  The checks use it in one way: a loop of           *)
(* CheckConstraintCached starts a backtrack point, deducts objects that    *)
(* are CTT_GENERIC or CTT_SUBTYPE (SimplifyConstraintType), lets the check *)
(* of a sub-constraint run its own loop inside, and either returns or      *)
(* backtracks to its own point.  The running loops form a stack (open);    *)
(* points holds, for the level of every running loop, the objects and the  *)
(* length of the list when StartBacktrackPoint returned that level.        *)
----------------------------------------------------------------------------

MaxNodes == 3
MaxPoints == 2

DeductedTypes == {"I32"}

\* the point of a loop that has ended
NoPoint == [nodes |-> <<>>, length |-> 0]

\* what the last call on the root was, when it was DoBacktrack: the level, the
\* number of objects taken from the list and the largest CLevel among them
NoBacktrack == [op |-> "", level |-> 0, popped |-> 0, deepest |-> 0]

\* a root with an empty log and objects that are CTT_GENERIC and CTT_SUBTYPE
\* in turn, in a build with assertions
NewRoot ==
    /\ solver = NoSolver
    /\ solver' = [pc |-> "root", asserts |-> TRUE,
                  nodes |-> [t \in 1..MaxNodes |->
                                IF t % 2 = 1
                                THEN NewConstraintType("CTT_GENERIC", NoType, "Box", "", 0)
                                ELSE NewConstraintType("CTT_SUBTYPE", NoType, "", "Item", 0)],
                  BacktrackList |-> <<>>, BacktrackListSize |-> <<>>,
                  open |-> <<>>, points |-> <<>>, last |-> NoBacktrack]
    /\ UNCHANGED solverFrame

\* the top of a loop of CheckConstraintCached
BacktrackPoint ==
    /\ solver.pc = "root"
    /\ Len(solver.BacktrackListSize) < MaxPoints
    /\ LET id == StartBacktrackPoint(solver)
       IN solver' = [id.s EXCEPT !.open = Append(@, id.r),
                                 !.points = Append(@, [nodes |-> solver.nodes,
                                                       length |-> Len(solver.BacktrackList)]),
                                 !.last = NoBacktrack]
    /\ UNCHANGED solverFrame

\* SimplifyConstraintType deducts an object that is not yet simplified
Deduct(t, rt) ==
    /\ solver.pc = "root"
    /\ solver.nodes[t].CType \in {"CTT_GENERIC", "CTT_SUBTYPE"}
    /\ LET x == IF rt = NoType THEN DeductFail(solver, t) ELSE DeductRT(solver, t, rt)
       IN solver' = [x.s EXCEPT !.last = NoBacktrack]
    /\ UNCHANGED solverFrame

\* the largest CLevel of the objects in the list from position from on
RECURSIVE MaxLevel(_, _)
MaxLevel(s, from) ==
    IF from > Len(s.BacktrackList) THEN 0
    ELSE LET rest == MaxLevel(s, from + 1)
             here == s.nodes[s.BacktrackList[from]].CLevel
         IN IF here > rest THEN here ELSE rest

\* the running loop fails its pass: DoBacktrack to its own point
BacktrackToPoint ==
    /\ solver.pc = "root"
    /\ solver.open # <<>>
    /\ LET level == Back(solver.open)
           x == DoBacktrack(solver, level)
       IN solver' = [x.s EXCEPT
                        !.open = PopBack(@), !.points[level + 1] = NoPoint,
                        !.last = [op |-> "DoBacktrack", level |-> level,
                                  popped |-> Len(solver.BacktrackList)
                                             - Len(x.s.BacktrackList),
                                  deepest |-> MaxLevel(solver,
                                                  solver.points[level + 1].length + 1)]]
    /\ UNCHANGED solverFrame

\* the running loop returns true: its deductions stay
ReturnFromPoint ==
    /\ solver.pc = "root"
    /\ solver.open # <<>>
    /\ solver' = [solver EXCEPT !.open = PopBack(@),
                                 !.points[Back(solver.open) + 1] = NoPoint,
                                 !.last = NoBacktrack]
    /\ UNCHANGED solverFrame

NextBacktrack ==
    \/ NewRoot
    \/ BacktrackPoint
    \/ \E t \in 1..MaxNodes, rt \in DeductedTypes \cup {NoType} : Deduct(t, rt)
    \/ BacktrackToPoint
    \/ ReturnFromPoint

SpecBacktrack == InitSolver /\ [][NextBacktrack]_vars

\* the objects in the list of root s from position from on
DeductedSince(s, from) == {s.BacktrackList[k] : k \in from..Len(s.BacktrackList)}

\* after is root before once DoBacktrack(level) has returned
Backtracked(before, after, level) ==
    LET point == before.points[level + 1]
    IN /\ Len(after.BacktrackList) = point.length
       /\ \A t \in DOMAIN before.nodes :
              IF t \in DeductedSince(before, point.length + 1)
              THEN /\ after.nodes[t].CType = point.nodes[t].CType
                   /\ after.nodes[t].CLevel = 0
                   /\ after.nodes[t].Determined = NoType
              ELSE after.nodes[t] = before.nodes[t]

\* C30: after DoBacktrack(level) the list has the length that
\* StartBacktrackPoint recorded when it returned level, every object deducted
\* since then, under whatever later backtrack point, has the CType it had
\* before the deduction, CLevel 0 and no Determined type, and the objects
\* deducted before that point are as they were
C30_DoBacktrack ==
    [][(solver.pc = "root" /\ solver'.last.op = "DoBacktrack")
           => Backtracked(solver, solver', solver'.last.level)]_vars

\* DoBacktrack has undone deductions made under its own point and under a
\* later one and has left an earlier deduction in place
C30_Witness ==
    /\ solver.pc = "root"
    /\ solver.last.op = "DoBacktrack"
    /\ solver.last.popped >= 2
    /\ solver.last.deepest > solver.last.level + 1
    /\ \E t \in DOMAIN solver.nodes : solver.nodes[t].CType \in {"CTT_RT", "CTT_FAIL"}
    /\ \E t \in DOMAIN solver.nodes :
           solver.nodes[t].CLevel = 0 /\ solver.nodes[t].CType # "CTT_RT"

\* C31: DoBacktrack after a failed pass leaves every placeholder that was
\* undetermined at the backtrack point of the pass undetermined again
C31_BacktrackUndetermines ==
    [][(solver.pc = "backtrack" /\ solver'.pc = "move")
           => \A i \in DOMAIN solver.point.UndeterminedTypes :
                  solver.point.UndeterminedTypes[i] = NoType
                      => solver'.UndeterminedTypes[i] = NoType]_vars

----------------------------------------------------------------------------
(* TryDetermineEqualTypes (RuntimeLoaderConstraint.h 1236-1316) on its     *)
(* own: two ConstraintType objects of a root in which no placeholder is    *)
(* determined, and one call on them.  ret is the result of the call.       *)
----------------------------------------------------------------------------

\* the operands, as trees of ConstraintType objects: Duo and Other are
\* templates of two and of one parameter
Shape(ctype, determined, template, args) ==
    [CType |-> ctype, Determined |-> determined, Template |-> template, Args |-> args]

EmptyShape == Shape("CTT_EMPTY", NoType, "", <<>>)
FailShape == Shape("CTT_FAIL", NoType, "", <<>>)
AnyShape == Shape("CTT_ANY", NoType, "", <<>>)
RTShape(h) == Shape("CTT_RT", h, "", <<>>)
GenericShape(t, args) == Shape("CTT_GENERIC", NoType, t, args)
\* the subtype Item of a placeholder
SubtypeShape == Shape("CTT_SUBTYPE", NoType, "Item", <<AnyShape>>)

Operands ==
    {EmptyShape, FailShape, AnyShape, RTShape("I32"), RTShape("I64"), SubtypeShape,
     GenericShape("Box", <<AnyShape>>), GenericShape("Box", <<RTShape("I32")>>),
     GenericShape("Box", <<FailShape>>), GenericShape("Other", <<AnyShape>>),
     GenericShape("Duo", <<AnyShape, AnyShape>>),
     GenericShape("Duo", <<AnyShape, RTShape("I32")>>),
     GenericShape("Duo", <<RTShape("I32"), AnyShape>>),
     GenericShape("Duo", <<SubtypeShape, RTShape("I64")>>),
     GenericShape("Duo", <<SubtypeShape, EmptyShape>>)}

\* the objects of a shape, made with the factory functions of ConstraintType
RECURSIVE MakeConstraintType(_, _)
RECURSIVE MakeConstraintTypes(_, _, _)
MakeConstraintTypes(s, shapes, made) ==
    IF Len(made) = Len(shapes) THEN Ok(s, made)
    ELSE LET x == MakeConstraintType(s, shapes[Len(made) + 1])
         IN MakeConstraintTypes(x.s, shapes, Append(made, x.r))

MakeConstraintType(s, shape) ==
    CASE shape.CType = "CTT_EMPTY" -> ConstraintEmpty(s)
      [] shape.CType = "CTT_FAIL" -> ConstraintFail(s)
      [] shape.CType = "CTT_ANY" -> ConstraintUD(s)
      [] shape.CType = "CTT_RT" -> ConstraintRT(s, shape.Determined)
      [] shape.CType = "CTT_GENERIC" ->
            LET g == ConstraintG(s, shape.Template)
                args == MakeConstraintTypes(g.s, shape.Args, <<>>)
            IN Ok([args.s EXCEPT !.nodes[g.r].Args = args.r], g.r)
      [] OTHER ->
            LET sub == ConstraintSUB(s, shape.Template)
                parent == MakeConstraintTypes(sub.s, shape.Args, <<>>)
            IN Ok([parent.s EXCEPT !.nodes[sub.r].ParentType = parent.r], sub.r)

\* a root with the objects of two operands
NewOperands(sa, sb) ==
    /\ solver = NoSolver
    /\ LET root == [pc |-> "operands", asserts |-> TRUE, nodes |-> <<>>,
                    UndeterminedTypes |-> <<>>, BacktrackList |-> <<>>,
                    BacktrackListSize |-> <<>>, Size |-> 0, caches |-> <<>>,
                    a |-> 0, b |-> 0, ret |-> 0, err |-> ""]
           a == MakeConstraintType(root, sa)
           b == MakeConstraintType(a.s, sb)
       IN solver' = [b.s EXCEPT !.a = a.r, !.b = b.r]
    /\ UNCHANGED solverFrame

\* the call TryDetermineEqualTypes(a, b)
CallTryDetermineEqualTypes ==
    /\ solver.pc = "operands"
    /\ LET x == Solve("TryDetermineEqualTypes", <<solver, solver.a, solver.b>>)
       IN solver' = [x.s EXCEPT !.pc = "compared", !.ret = x.r, !.err = x.e]
    /\ UNCHANGED solverFrame

NextEqualTypes ==
    \/ /\ solver = NoSolver
       /\ \E sa \in Operands, sb \in Operands : NewOperands(sa, sb)
    \/ CallTryDetermineEqualTypes

SpecEqualTypes == InitSolver /\ [][NextEqualTypes]_vars

\* the object t as a tree: its kind after simplification, and what the rules
\* read of it
RECURSIVE Simplified(_, _)
Simplified(s, t) ==
    LET n == s.nodes[t]
    IN Shape(n.CType, n.Determined,
             IF n.CType = "CTT_SUBTYPE" THEN n.SubtypeName ELSE n.TypeTemplateIndex,
             [j \in DOMAIN n.Args |-> Simplified(s, n.Args[j])])

\* the arguments of a runtime type as trees
LoadedArguments(h) ==
    [j \in DOMAIN ConstraintRuntimeTypes[h].Arguments |->
        RTShape(ConstraintRuntimeTypes[h].Arguments[j])]

\* the rule table: the value for two simplified trees.  emptyMatches is the
\* value of Empty against a tree that is not Empty.
RECURSIVE RuleTable(_, _, _)
RECURSIVE FirstNonZero(_, _, _, _)
FirstNonZero(la, lb, j, emptyMatches) ==
    IF j > Len(la) THEN 0
    ELSE LET r == RuleTable(la[j], lb[j], emptyMatches)
         IN IF r # 0 THEN r ELSE FirstNonZero(la, lb, j + 1, emptyMatches)

RuleTable(a, b, emptyMatches) ==
    CASE a.CType = "CTT_EMPTY" /\ b.CType = "CTT_EMPTY" -> 0
      [] (a.CType = "CTT_EMPTY") # (b.CType = "CTT_EMPTY") -> emptyMatches
      [] OTHER ->
    CASE a.CType = "CTT_FAIL" \/ b.CType = "CTT_FAIL" -> -1
      [] OTHER ->
    CASE a.CType = "CTT_ANY" \/ b.CType = "CTT_ANY" ->
            IF a.CType = "CTT_RT" \/ b.CType = "CTT_RT" THEN 1 ELSE 0
      [] OTHER ->
    CASE a.CType = "CTT_SUBTYPE" \/ b.CType = "CTT_SUBTYPE" -> 0
      [] a.CType = "CTT_RT" /\ b.CType = "CTT_RT" ->
            IF a.Determined = b.Determined THEN 0 ELSE -1
      [] a.CType = "CTT_GENERIC" /\ b.CType = "CTT_GENERIC" ->
            IF a.Template # b.Template \/ Len(a.Args) # Len(b.Args) THEN -1
            ELSE FirstNonZero(a.Args, b.Args, 1, emptyMatches)
      [] a.CType = "CTT_RT" ->
            IF \/ ConstraintRuntimeTypes[a.Determined].Id # b.Template
               \/ Len(LoadedArguments(a.Determined)) # Len(b.Args)
            THEN -1
            ELSE FirstNonZero(b.Args, LoadedArguments(a.Determined), 1, emptyMatches)
      [] OTHER ->
            IF \/ ConstraintRuntimeTypes[b.Determined].Id # a.Template
               \/ Len(LoadedArguments(b.Determined)) # Len(a.Args)
            THEN -1
            ELSE FirstNonZero(a.Args, LoadedArguments(b.Determined), 1, emptyMatches)

\* C32: TryDetermineEqualTypes returns the value of the rule table for the
\* two simplified objects, in which Empty matches only Empty and Fail on
\* either side gives -1 whatever the other side is
C32_RuleTable ==
    (solver.pc = "compared" /\ solver.err = "") =>
        solver.ret = RuleTable(Simplified(solver, solver.a),
                               Simplified(solver, solver.b), -1)

----------------------------------------------------------------------------
(* A request step by step.  LoadTypeNoLock / LoadFunctionNoLock run from    *)
(* ClearLoadingLists to the return of LoadTypeInternal / LoadFunctionInternal *)
(* (BeginLoadType, BeginLoadFunction), then one turn of the loop of         *)
(* ProcessLoadingLists at a time (LoadingStep), then from the break of the  *)
(* loop to the return (FinishLoad).  The request in progress is that of     *)
(* threads[1] (pc "load"); log lists the turns of the loop the request has  *)
(* made, each with the object it took off its queue.                        *)
----------------------------------------------------------------------------

\* a turn of the loop that serves the queues in the reverse order
ProcessLoadingListsStep_FunctionsFirst(s) ==
    IF Len(s.loadingFunctions) > 0
    THEN Run("PostLoadFunction", <<Logged([s EXCEPT !.loadingFunctions = PopBack(@)],
                                          "PostLoadFunction", Back(s.loadingFunctions)),
                                   Back(s.loadingFunctions)>>)
    ELSE IF Len(s.postLoadingTypes) > 0
    THEN Run("PostLoadType", <<Logged([s EXCEPT !.postLoadingTypes = PopBack(@)],
                                      "PostLoadType", Back(s.postLoadingTypes)),
                               Back(s.postLoadingTypes)>>)
    ELSE IF Len(s.loadingRefTypes) > 0
    THEN Run("LoadFields", <<Logged([s EXCEPT !.loadingRefTypes = PopBack(@)],
                                    "LoadFields", Back(s.loadingRefTypes)),
                             Back(s.loadingRefTypes)>>)
    ELSE Ok(s, Null)

\* one turn of the loop of ProcessLoadingLists up to its `continue`, or the
\* `break` when the three queues are empty
ProcessLoadingListsStep(s) ==
    IF Len(s.loadingRefTypes) > 0
    THEN Run("LoadFields", <<Logged([s EXCEPT !.loadingRefTypes = PopBack(@)],
                                    "LoadFields", Back(s.loadingRefTypes)),
                             Back(s.loadingRefTypes)>>)
    ELSE IF Len(s.postLoadingTypes) > 0
    THEN Run("PostLoadType", <<Logged([s EXCEPT !.postLoadingTypes = PopBack(@)],
                                      "PostLoadType", Back(s.postLoadingTypes)),
                               Back(s.postLoadingTypes)>>)
    ELSE IF Len(s.loadingFunctions) > 0
    THEN Run("PostLoadFunction", <<Logged([s EXCEPT !.loadingFunctions = PopBack(@)],
                                          "PostLoadFunction", Back(s.loadingFunctions)),
                                   Back(s.loadingFunctions)>>)
    ELSE Ok(s, Null)

\* the assert after a turn of the loop
AssertNoLoadingTypes(x) ==
    IF x.e = "" /\ x.s.env.debug /\ Len(x.s.loadingTypes) # 0
    THEN Throw(Met(x.s, "debug"), "SIGABRT")
    ELSE x

\* the loader during the request of threads[1]
LoaderInRequest == [Loader(threads[1].env) EXCEPT !.log = log]

pipelineFrame == <<assemblies, loaderLock, resolution, declCall, solver>>

\* the request has got as far as x inside the try block: it goes on with the
\* loop, or it ends in the catch block or with a signal
GoesOn(c, env, x) ==
    IF x.e = ""
    THEN /\ Install(x.s)
         /\ log' = x.s.log
         /\ threads' = [threads EXCEPT ![1] = [pc |-> "load", call |-> [c EXCEPT !.ret = x.r],
                                               env |-> env, overlap |-> FALSE]]
         /\ UNCHANGED <<lastCall, held, crashed>>
    ELSE /\ Return(c.op, c.args, "", 0, 0, IF x.e \in Signals THEN x ELSE Caught(x))
         /\ threads' = [threads EXCEPT ![1] = Idle]

\* LoadTypeNoLock as far as the return of LoadTypeInternal
BeginLoadType(args) ==
    /\ ~crashed
    /\ Bounded
    /\ threads[1].pc = "idle"
    /\ FindByArgs(types, loadedTypes, args) = Null
    /\ \E env \in EnvsMet(LoadTypeNoLock(Loader(QuietEnv), args).s.met) :
          GoesOn(Call("GetType", args, "", 0, 0, Null, ""), env,
                 Run("LoadTypeInternal", <<ClearLoadingLists(Loader(env)), args>>))
    /\ UNCHANGED pipelineFrame

\* LoadFunctionNoLock as far as the return of LoadFunctionInternal, called
\* by a GetFunction whose scan reads no entry (no function is loaded yet)
BeginLoadFunction(args) ==
    /\ ~crashed
    /\ Bounded
    /\ threads[1].pc = "idle"
    /\ loadedFunctions = <<>>
    /\ \E env \in EnvsMet(LoadFunctionNoLock(Loader(QuietEnv), args).s.met) :
          GoesOn(Call("GetFunction", args, "", 0, 0, Null, ""), env,
                 LoadFunctionInternal(ClearLoadingLists(Loader(env)), args))
    /\ UNCHANGED pipelineFrame

\* a turn of the loop of ProcessLoadingLists
LoadingStep ==
    /\ ~crashed
    /\ threads[1].pc = "load"
    /\ Len(loadingRefTypes) + Len(postLoadingTypes) + Len(loadingFunctions) > 0
    /\ LET x == AssertNoLoadingTypes(ProcessLoadingListsStep(LoaderInRequest))
       IN GoesOn(threads[1].call, threads[1].env,
                 [x EXCEPT !.r = IF x.e = "" THEN threads[1].call.ret ELSE Null])
    /\ UNCHANGED pipelineFrame

\* the break of the loop, MoveFinishedObjects, ClearLoadingLists, the return
FinishLoad ==
    /\ ~crashed
    /\ threads[1].pc = "load"
    /\ Len(loadingRefTypes) + Len(postLoadingTypes) + Len(loadingFunctions) = 0
    /\ LET x == ThenMoveFinishedObjects(Ok(LoaderInRequest, threads[1].call.ret))
       IN /\ Return(threads[1].call.op, threads[1].call.args, "", 0, 0,
                    IF x.e \in Signals THEN x ELSE Caught(x))
          /\ threads' = [threads EXCEPT ![1] = Idle]
    /\ UNCHANGED pipelineFrame

PipelineBundles == {"Layout", "Cycles", "Funcs", "Queues"}

InitPipeline == assemblies \in PipelineBundles /\ Start

NextPipeline ==
    \/ \E args \in TypeRequests : BeginLoadType(args)
    \/ \E args \in FunctionRequests : BeginLoadFunction(args)
    \/ LoadingStep
    \/ FinishLoad

SpecPipeline == InitPipeline /\ [][NextPipeline]_vars

\* the request in progress makes a turn of the loop of the kind
Turn(kind) ==
    /\ threads[1].pc = "load"
    /\ Len(log') > Len(log)
    /\ log'[Len(log) + 1].call = kind

\* the request in progress leaves the loop by its break
Break ==
    /\ threads[1].pc = "load"
    /\ threads' # threads
    /\ ~Turn("LoadFields") /\ ~Turn("PostLoadType") /\ ~Turn("PostLoadFunction")

\* C33: ProcessLoadingLists serves loadingRefTypes before postLoadingTypes
\* before loadingFunctions: a PostLoadType turn is made only with
\* loadingRefTypes empty, a PostLoadFunction turn only with loadingRefTypes
\* and postLoadingTypes empty, loadingTypes is empty between the turns, and
\* the loop is left only with the three queues empty
C33_QueuePriority ==
    [][/\ Turn("PostLoadType") => loadingRefTypes = <<>>
       /\ Turn("PostLoadFunction") => (loadingRefTypes = <<>> /\ postLoadingTypes = <<>>)
       /\ threads[1].pc = "load" => loadingTypes = <<>>
       /\ threads'[1].pc = "load" => loadingTypes' = <<>>
       /\ Break => (/\ loadingRefTypes = <<>>
                    /\ postLoadingTypes = <<>>
                    /\ loadingFunctions = <<>>)]_vars

\* the request has laid out a reference type and wired it, and both a type
\* to wire and a function to resolve are waiting
C33_Witness ==
    /\ threads[1].pc = "load"
    /\ loadingRefTypes = <<>>
    /\ Len(postLoadingTypes) > 0
    /\ Len(loadingFunctions) > 0
    /\ Len(log) >= 2
    /\ log[1].call = "LoadFields"
    /\ Back(log).call = "PostLoadType"

\* the objects of the request in progress: those on its queues
QueuedTypes ==
    {loadingTypes[i] : i \in DOMAIN loadingTypes}
    \cup {loadingRefTypes[i] : i \in DOMAIN loadingRefTypes}
    \cup {postLoadingTypes[i] : i \in DOMAIN postLoadingTypes}
    \cup {finishedLoadingTypes[i] : i \in DOMAIN finishedLoadingTypes}

QueuedFunctions ==
    {loadingFunctions[i] : i \in DOMAIN loadingFunctions}
    \cup {finishedLoadingFunctions[i] : i \in DOMAIN finishedLoadingFunctions}

\* the number of places of the queues that hold the type t
QueuesHolding(t) ==
    Cardinality({i \in DOMAIN loadingTypes : loadingTypes[i] = t})
    + Cardinality({i \in DOMAIN loadingRefTypes : loadingRefTypes[i] = t})
    + Cardinality({i \in DOMAIN postLoadingTypes : postLoadingTypes[i] = t})
    + Cardinality({i \in DOMAIN finishedLoadingTypes : finishedLoadingTypes[i] = t})

\* C34: during a request every object the request has created is held by
\* exactly one loading queue, and no two objects of the request have equal
\* LoadingArguments: a lookup during the request finds the object and does
\* not create a second one
C34_OneObjectPerArguments ==
    threads[1].pc = "load" =>
        /\ \A t \in QueuedTypes : QueuesHolding(t) = 1
        /\ \A t \in QueuedTypes, u \in QueuedTypes :
               types[t].Args = types[u].Args => t = u
        /\ \A f \in QueuedFunctions, g \in QueuedFunctions :
               funcs[f].Args = funcs[g].Args => f = g

-----------------------------------------------------------------------------
(* The code cache of the loader: requests over a bundle with a generic
   function that has code *)

InitCode == assemblies = "Code" /\ Start

NextCode ==
    \/ \E args \in TypeRequests : GetType(args)
    \/ \E args \in FunctionRequests, nullRead \in NullReads : GetFunction(args, nullRead)

SpecCode == InitCode /\ [][NextCode]_vars

\* the function objects that are alive
LiveFunctions == {f \in 1..Len(funcs) : ~funcs[f].Freed}

\* C35: the code cache holds at most one blob per (assembly, function id), every
\* function object refers to the blob of its own template, a function has no
\* blob only if its template has no code, and a cached blob never changes
C35_OneBlobPerTemplate ==
    [][/\ \A i \in 1..Len(codeStorage), j \in 1..Len(codeStorage) :
            (/\ codeStorage[i].AssemblyName = codeStorage[j].AssemblyName
             /\ codeStorage[i].Id = codeStorage[j].Id) => i = j
       /\ \A f \in LiveFunctions :
            IF At(AssemblyList(assemblies)[1].Functions, funcs[f].Args.Id).HasCode
            THEN /\ funcs[f].Code \in 1..Len(codeStorage)
                 /\ codeStorage[funcs[f].Code].AssemblyName = funcs[f].Args.Assembly
                 /\ codeStorage[funcs[f].Code].Id = funcs[f].Args.Id
            ELSE funcs[f].Code = Null
       /\ Len(codeStorage') >= Len(codeStorage)
       /\ \A i \in 1..Len(codeStorage) : codeStorage'[i] = codeStorage[i]]_vars

\* two instantiations of Gen with different arguments share one blob
C35_Witness ==
    \E f \in LiveFunctions, g \in LiveFunctions :
        /\ funcs[f].Args.Id = 0 /\ funcs[g].Args.Id = 0
        /\ funcs[f].Args # funcs[g].Args
        /\ funcs[f].Code = funcs[g].Code
        /\ funcs[f].Code # Null
        /\ f \in {loadedFunctions[i] : i \in 1..Len(loadedFunctions)}
        /\ g \in {loadedFunctions[i] : i \in 1..Len(loadedFunctions)}

-----------------------------------------------------------------------------
(* The code cache of RuntimeLoaderData: blobs with import constants *)

\* the number of OP_NOP appended to the instructions of a blob
NopTail == 16

\* struct Function (template), the part GetCode copies
CodeT(instruction, data, table, locals) ==
    [Instruction |-> instruction, ConstantData |-> data, ConstantTable |-> table,
     Locals |-> locals]

\* FunctionConst
Entry(offset, length) == [Offset |-> offset, Length |-> length]

\* A imports: 0 B.K (7); 1 B.Missing (no such export); 2 B.K declared with a
\*    generic parameter; 3 Z.K (no such assembly); 4 B.Big (0x01020304)
\* A functions: 0 without code; 1 instructions only; 2 two literal constants;
\*    3 a literal, import 0 and import 4; 4 import 0 and then import 1; 5 import
\*    2; 6 import 9 (no such record); 7 nothing but a table with import 0;
\*    8 import 3
\* B: exports K = 7 and Big = 0x01020304
TableBundle ==
    << [AssemblyName |-> "A",
        ImportConstants |-> <<Import("B", "K", 0), Import("B", "Missing", 0),
                              Import("B", "K", 1), Import("Z", "K", 0),
                              Import("B", "Big", 0)>>,
        ExportConstants |-> <<>>,
        Functions |->
          << CodeT(<<>>, <<>>, <<>>, <<>>),
             CodeT(<<"OP_RET">>, <<>>, <<>>, <<1>>),
             CodeT(<<"OP_RET">>, <<10, 11, 12, 13, 14>>, <<Entry(0, 4), Entry(4, 1)>>, <<>>),
             CodeT(<<"OP_RET">>, <<10, 11>>, <<Entry(0, 2), Entry(0, 0), Entry(4, 0)>>, <<>>),
             CodeT(<<"OP_RET">>, <<>>, <<Entry(0, 0), Entry(1, 0)>>, <<>>),
             CodeT(<<"OP_RET">>, <<>>, <<Entry(2, 0)>>, <<>>),
             CodeT(<<"OP_RET">>, <<>>, <<Entry(9, 0)>>, <<>>),
             CodeT(<<>>, <<>>, <<Entry(0, 0)>>, <<>>),
             CodeT(<<"OP_RET">>, <<20>>, <<Entry(0, 1), Entry(3, 0)>>, <<>>) >>],
       [AssemblyName |-> "B",
        ImportConstants |-> <<>>,
        ExportConstants |-> <<Export("K", 7), Export("Big", 16909060)>>,
        Functions |-> <<>>] >>

\* the byte orders of the targets: (unsigned char*)&value reads the object
\* representation of the std::uint32_t
ByteOrders == {"little", "big"}

\* the four bytes at (unsigned char*)&value
ValueBytes(value, order) ==
    LET le == << value % 256, (value \div 256) % 256, (value \div 65536) % 256,
                 (value \div 16777216) % 256 >>
    IN IF order = "little" THEN le ELSE <<le[4], le[3], le[2], le[1]>>

RECURSIVE ProcessImportConstants(_, _, _, _, _, _)
\* the loop of GetCode over the constant table `table`, from entry k: r is the
\* blob, asm the assemblies with the table the loop has written
ProcessImportConstants(asm, order, a, id, ret, k) ==
    IF k > Len(ret.ConstantTable) THEN [asm |-> asm, r |-> ret, e |-> ""]
    ELSE IF ret.ConstantTable[k].Length # 0
    THEN ProcessImportConstants(asm, order, a, id, ret, k + 1)
    ELSE LET value == LoadImportConstant(asm, a, ret.ConstantTable[k].Offset)
             offset == Len(ret.ConstantData)
         IN IF ~value.found THEN [asm |-> asm, r |-> ret, e |-> value.err]
            ELSE ProcessImportConstants(asm, order, a, id,
                    [ret EXCEPT !.ConstantData = @ \o ValueBytes(value.value, order),
                                !.ConstantTable[k] = Entry(offset, 4)],
                    k + 1)

\* the blob GetCode makes of template f before the constants are processed
CopyOfTemplate(a, id, f) ==
    [AssemblyName |-> a, Id |-> id,
     Instruction |-> f.Instruction \o [i \in 1..NopTail |-> "OP_NOP"],
     ConstantData |-> f.ConstantData, ConstantTable |-> f.ConstantTable,
     LocalVariables |-> f.Locals]

\* GetCode with the push_back before the constants are processed
RuntimeLoaderData_GetCode_PushFirst(s, a, id) ==
    LET hits == {i \in 1..Len(s.codeStorage) :
                    s.codeStorage[i].AssemblyName = a /\ s.codeStorage[i].Id = id}
        f == FindFunctionTemplate(s, a, id)
        done == ProcessImportConstants(s.asm, s.order, FindAssemblyNoThrow(s.asm, a), id,
                                       CopyOfTemplate(a, id, f.r), 1)
        pushed == [s EXCEPT !.codeStorage = Append(@, done.r)]
    IN IF hits # {} THEN Ok(s, CHOOSE i \in hits : \A j \in hits : i <= j)
       ELSE IF f.e # "" THEN f
       ELSE IF f.r.Instruction = <<>> /\ f.r.ConstantData = <<>> /\ f.r.ConstantTable = <<>>
       THEN Ok(s, Null)
       ELSE IF done.e # "" THEN Throw(pushed, done.e)
       ELSE Ok(pushed, Len(s.codeStorage) + 1)

\* RuntimeLoaderData::GetCode: r is the blob (its position in _codeStorage.Data),
\* Null for a function without code
RuntimeLoaderData_GetCode(s, a, id) ==
    LET hits == {i \in 1..Len(s.codeStorage) :
                    s.codeStorage[i].AssemblyName = a /\ s.codeStorage[i].Id = id}
        f == FindFunctionTemplate(s, a, id)
        done == ProcessImportConstants(s.asm, s.order, FindAssemblyNoThrow(s.asm, a), id,
                                       CopyOfTemplate(a, id, f.r), 1)
    IN IF hits # {} THEN Ok(s, CHOOSE i \in hits : \A j \in hits : i <= j)
       ELSE IF f.e # "" THEN f
       ELSE IF f.r.Instruction = <<>> /\ f.r.ConstantData = <<>> /\ f.r.ConstantTable = <<>>
       THEN Ok(s, Null)
       ELSE IF done.e # "" THEN Throw([s EXCEPT !.asm = done.asm], done.e)
       ELSE Ok([s EXCEPT !.asm = done.asm, !.codeStorage = Append(@, done.r)],
               Len(s.codeStorage) + 1)

\* a call of GetCode(a, id).  In the runs of the code cache `assemblies` holds
\* the assemblies themselves and the byte order of the target.
CallGetCode(a, id) ==
    /\ ~crashed
    /\ LET x == RuntimeLoaderData_GetCode([asm |-> assemblies.Assemblies,
                                           order |-> assemblies.ByteOrder,
                                           codeStorage |-> codeStorage], a, id)
       IN /\ codeStorage' = x.s.codeStorage
          /\ assemblies' = [assemblies EXCEPT !.Assemblies = x.s.asm]
          /\ lastCall' = Call("GetCode", LoadingArgs(a, id, <<>>), "", 0, 0, x.r, x.e)
    /\ UNCHANGED <<loadedTypes, loadedFunctions, types, funcs, loadingTypes,
                   loadingRefTypes, postLoadingTypes, loadingFunctions,
                   finishedLoadingTypes, finishedLoadingFunctions, nextTypeId,
                   nextFunctionId, held, crashed, log, loaderLock, threads,
                   resolution, declCall, solver>>

InitConstants ==
    /\ assemblies \in {[ByteOrder |-> o, Assemblies |-> TableBundle] : o \in ByteOrders}
    /\ Start

NextConstants ==
    \E a \in {"A", "B", "Z"}, id \in 0..Len(TableBundle[1].Functions) : CallGetCode(a, id)

SpecConstants == InitConstants /\ [][NextConstants]_vars

\* the template of a cached blob
CodeTemplateOf(b) ==
    At(assemblies.Assemblies[FindAssemblyNoThrow(assemblies.Assemblies,
                                                 b.AssemblyName)].Functions, b.Id)

\* the std::uint32_t whose object representation starts at data[offset]
WordAt(data, offset, order) ==
    IF order = "little"
    THEN data[offset + 1] + 256 * data[offset + 2] + 65536 * data[offset + 3]
            + 16777216 * data[offset + 4]
    ELSE data[offset + 4] + 256 * data[offset + 3] + 65536 * data[offset + 2]
            + 16777216 * data[offset + 1]

\* the constants that the import records of assembly A resolve to
ResolvedImports == (0 :> 7) @@ (4 :> 16909060)

\* C36: no constant-table entry of a cached blob has Length 0: an entry that
\* has Length 0 in the template has Length 4 and an Offset at which ConstantData
\* holds the four bytes of the constant its import resolves to, every other
\* entry and the bytes of the template are copied as they are, the templates
\* never change, and a call that fails caches nothing
C36_ImportConstantsResolved ==
    [][/\ \A i \in 1..Len(codeStorage) :
            LET b == codeStorage[i]
                f == CodeTemplateOf(b)
            IN /\ Len(b.ConstantTable) = Len(f.ConstantTable)
               /\ SubSeq(b.ConstantData, 1, Len(f.ConstantData)) = f.ConstantData
               /\ \A k \in 1..Len(f.ConstantTable) :
                    IF f.ConstantTable[k].Length = 0
                    THEN /\ f.ConstantTable[k].Offset \in DOMAIN ResolvedImports
                         /\ b.ConstantTable[k].Length = 4
                         /\ b.ConstantTable[k].Offset >= Len(f.ConstantData)
                         /\ b.ConstantTable[k].Offset + 4 <= Len(b.ConstantData)
                         /\ WordAt(b.ConstantData, b.ConstantTable[k].Offset,
                                   assemblies.ByteOrder)
                               = ResolvedImports[f.ConstantTable[k].Offset]
                    ELSE b.ConstantTable[k] = f.ConstantTable[k]
       /\ assemblies' = assemblies
       /\ lastCall'.err # "" => codeStorage' = codeStorage]_vars

\* the blob of function 3 is cached: its two imports are rewritten
C36_Witness ==
    \E i \in 1..Len(codeStorage) :
        /\ codeStorage[i].Id = 3
        /\ codeStorage[i].ConstantTable = <<Entry(0, 2), Entry(2, 4), Entry(6, 4)>>
        /\ Len(codeStorage[i].ConstantData) = 10
        /\ lastCall.err = "Constant export not found"

-----------------------------------------------------------------------------
(* Indices past the end of a table *)

InitIndices == assemblies = "Indices" /\ Start

NextIndices ==
    \/ \E args \in TypeRequests : GetType(args)
    \/ \E args \in FunctionRequests, nullRead \in NullReads : GetFunction(args, nullRead)

SpecIndices == InitIndices /\ [][NextIndices]_vars

\* the functions of the bundle whose ReturnValue or parameter is an index equal
\* to the size of their type RefList
PastEndFunctions == {0, 1}

\* C37: a request for a function whose return or parameter type index is out of
\* range for its type RefList fails with an exception of the loader: it
\* neither returns a function nor ends in a signal
C37_OutOfRangeFails ==
    (lastCall.op = "GetFunction" /\ lastCall.args.Id \in PastEndFunctions)
        => (lastCall.err # "" /\ lastCall.err \notin Signals)

-----------------------------------------------------------------------------
(* The static storage of global types *)

\* the types that are published in _loadedTypes
PublishedTypes == {loadedTypes[i] : i \in 1..Len(loadedTypes)} \ {Null}

\* C38: the StaticPointer of a published global-storage type is not null, is a
\* multiple of the type's alignment and lies with the type's size inside a
\* buffer of size + alignment bytes that is still allocated; the StaticPointer
\* of every other published type is null
C38_StaticStorage ==
    \A t \in PublishedTypes :
        IF types[t].Storage = "TSM_GLOBAL"
        THEN /\ types[t].StaticPointer # Null
             /\ types[t].StaticPointer % types[t].Alignment = 0
             /\ types[t].StaticBuffer.Size = types[t].Size + types[t].Alignment
             /\ types[t].StaticBuffer.Raw <= types[t].StaticPointer
             /\ types[t].StaticPointer + types[t].Size
                   <= types[t].StaticBuffer.Raw + types[t].StaticBuffer.Size
             /\ types[t].StaticBuffer.Allocated
        ELSE types[t].StaticPointer = Null

-----------------------------------------------------------------------------
(* The export list of CheckConstraintsImpl *)

\* an entry of a RefList of a declaration
DeclarationReference(type, index) == [Type |-> type, Index |-> index]

\* the names the NamesList of the declarations holds, by index from 0
ExportNamesList ==
    << <<"c", "/", "f">>, <<"c", "/", "b">>, <<"c", "/", "x">>,
       <<"c", "/">> \o TargetExportName, <<"c", "/", "t">>, <<"c", "/", "s">>,
       <<"c", "/", "v">>, <<"c", "/", "a">>, <<"c", "/", "i", "/", "f">>,
       <<"c", "/", "i", "/", "b">>, <<"c", "/", "i", "/">> \o TargetExportName,
       <<"c", "/", "g">>, <<"c", "/">>, <<"c", "/", "/", "f">>, <<"c", "c", "/", "f">>,
       <<"f">>, <<"d", "/">> \o TargetExportName, <<"/", "f">>, <<"c", "/", "i", "/">>,
       <<"c", "/", "i", "/", "q">>, <<"c", "/", "q", "/", "f">>, <<"c">>,
       <<"d", "/", "f">>, <<"c", "/", "i", "/", "t">> >>

\* the declaration with the constraints whose three RefLists refer to the
\* names n, n + 1 and n + 2 of the NamesList (from the first again after the
\* last), behind or between entries of other kinds
ExportingDeclaration(constraints, n) ==
    LET name(k) == (n + k) % Len(ExportNamesList)
    IN [Constraints |-> constraints,
        Types |-> <<DeclarationReference(REF_ASSEMBLY, name(0)),
                    DeclarationReference(REF_CONSTRAINT, name(0)),
                    DeclarationReference(REF_CONSTRAINT + REF_FORCELOAD, name(1)),
                    DeclarationReference(REF_CONSTRAINT, name(2))>>,
        Functions |-> <<DeclarationReference(REF_CONSTRAINT, name(2)),
                        DeclarationReference(REF_ASSEMBLY + REF_FORCELOAD, name(1)),
                        DeclarationReference(REF_CONSTRAINT, name(1)),
                        DeclarationReference(REF_CONSTRAINT, name(0))>>,
        Fields |-> <<DeclarationReference(REF_CONSTRAINT, name(1)),
                     DeclarationReference(REF_CONSTRAINT, name(0)),
                     DeclarationReference(REF_CONSTRAINT + REF_FORCELOAD, name(2))>>,
        NamesList |-> ExportNamesList]

\* the constraint lists of the declarations: a trait of the bundle on the
\* first argument of the declaration, exported as "c", alone, behind a
\* constraint without export name, or before a constraint exported as "d"
\* that the argument may fail
ExportingConstraints ==
    LET trait(t, a) == Exported(GenericConstraint("declaration", "CONSTRAINT_TRAIT_ASSEMBLY",
                                                   t, RefArgument(0), <<a>>), <<"c">>)
        box == GenericConstraint("declaration", "CONSTRAINT_EXIST", "",
                                 RefTry(RefAssembly("Box", <<RefArgument(0)>>)), <<>>)
        same == GenericConstraint("declaration", "CONSTRAINT_SAME", "", RefArgument(0),
                                  <<RefAssembly("Rec", <<>>)>>)
    IN UNION {{<<trait(t, a)>>,
               <<same, trait(t, a)>>,
               <<trait(t, a), Exported(box, <<"d">>)>>} :
                  t \in {"Shape", "Deep", "Pair"},
                  a \in {RefAny, RefAssembly("I64", <<>>)}}
       \cup {<<Exported(same, <<"c">>)>>, <<Exported(box, <<"c">>)>>}

\* the calls of CheckConstraintsImpl: the argument of the declaration, the
\* declaration, and whether the caller gives an export list
ExportRequests ==
    {[Arguments |-> <<x>>, Declaration |-> ExportingDeclaration(constraints, n),
      WantsExports |-> wants] :
        x \in {"Rec", "Lazy", "Two", "I32"},
        constraints \in ExportingConstraints,
        n \in 0..(Len(ExportNamesList) - 1),
        wants \in BOOLEAN}

\* the solver after the call: x is what CheckConstraintsImpl gave
ExportOutcome(x) ==
    [x.s EXCEPT !.pc = "done"] @@ [result |-> x.e = "" /\ x.r, err |-> x.e]

\* a call of CheckConstraintsImpl, in a build with or without assertions
CallCheckConstraints(asserts, request) ==
    /\ solver.pc = "none"
    /\ solver' = ExportOutcome(SolveExport("CheckConstraints",
                    <<[pc |-> "start", request |-> request, asserts |-> asserts,
                       nodes |-> <<>>, UndeterminedTypes |-> <<>>,
                       BacktrackList |-> <<>>, BacktrackListSize |-> <<>>,
                       Size |-> 0, caches |-> <<>>, exportList |-> <<>>,
                       checked |-> <<>>], request>>))
    /\ UNCHANGED solverFrame

InitExports == assemblies = "Layout" /\ Start

NextExports ==
    \E asserts \in BOOLEAN, request \in ExportRequests : CallCheckConstraints(asserts, request)

SpecExports == InitExports /\ [][NextExports]_vars

\* the type a node of the finished check stands for: the runtime type of a
\* CTT_RT node, the type an undetermined type got, the instance of the
\* template of a CTT_GENERIC node for the types of its arguments
RECURSIVE ExportNodeType(_)
ExportNodeType(n) ==
    LET t == solver.nodes[n]
        la == [Id |-> t.TypeTemplateIndex,
               Arguments |-> [i \in 1..Len(t.Args) |-> ExportNodeType(t.Args[i])]]
        hits == {h \in DOMAIN ConstraintRuntimeTypes : ConstraintRuntimeTypes[h] = la}
    IN CASE t.CType = "CTT_RT" -> t.Determined
         [] t.CType = "CTT_ANY" -> At(solver.UndeterminedTypes, t.Undetermined)
         [] t.CType = "CTT_GENERIC" -> IF hits = {} THEN NoType ELSE CHOOSE h \in hits : TRUE
         [] OTHER -> NoType

\* the runtime type a reference of a trait or template names for the target
\* and the arguments
RECURSIVE DenotedType(_, _, _)
DenotedType(ref, target, arguments) ==
    CASE ref.k = "REF_ARGUMENT" ->
            IF ref.Index < Len(arguments) THEN At(arguments, ref.Index) ELSE NoType
      [] ref.k = "REF_SELF" -> target
      [] ref.k = "REF_ASSEMBLY" ->
            LET la == [Id |-> ref.Index,
                       Arguments |-> [i \in 1..Len(ref.Args) |->
                                         DenotedType(ref.Args[i], target, arguments)]]
                hits == {h \in DOMAIN ConstraintRuntimeTypes : ConstraintRuntimeTypes[h] = la}
            IN IF hits = {} THEN NoType ELSE CHOOSE h \in hits : TRUE
      [] ref.k = "REF_SUBTYPE" ->
            LET parent == DenotedType(ref.Parent, target, arguments)
                subTypes == IF parent = NoType THEN <<>>
                            ELSE FindConstraintTypeTemplate(ConstraintRuntimeTypes[parent]).SubTypes
                hits == {i \in 1..Len(subTypes) : subTypes[i].Name = ref.Name}
            IN IF hits = {} THEN NoType ELSE subTypes[CHOOSE i \in hits : TRUE].Type
      [] OTHER -> NoType

\* the caches below the cache c of a checked constraint, each with the path
\* of export names that leads to it ("" for c itself, "i/" for the
\* sub-constraint exported as "i")
RECURSIVE ExportPaths(_)
ExportPaths(c) ==
    LET cache == solver.caches[c]
        constraintList == IF cache.Source.Type = "CONSTRAINT_TRAIT_ASSEMBLY"
                          THEN ConstraintTraits[cache.Trait].Constraints ELSE <<>>
        shared == {i \in 1..Len(cache.Children) : i <= Len(constraintList)}
    IN {<<c, <<>>>>} \cup
       UNION {{<<p[1], constraintList[i].ExportName \o <<"/">> \o p[2]>> :
                  p \in ExportPaths(cache.Children[i])} : i \in shared}

\* the elements of a list
Range(list) == {list[i] : i \in 1..Len(list)}

\* the name starts with the prefix
StartsWith(name, prefix) ==
    Len(name) >= Len(prefix) /\ SubSeq(name, 1, Len(prefix)) = prefix

\* what the entry e holds is what the leaf name means at the cache d
ExportLeafMeaning(e, d, leaf) ==
    LET cache == solver.caches[d]
        trait == cache.Source.Type = "CONSTRAINT_TRAIT_ASSEMBLY"
        target == ExportNodeType(cache.Target)
        arguments == [i \in 1..Len(cache.Arguments) |-> ExportNodeType(cache.Arguments[i])]
        tt == FindConstraintTypeTemplate(ConstraintRuntimeTypes[target])
    IN /\ target # NoType
       /\ CASE e.EntryType = "CONSTRAINT_EXPORT_TYPE" ->
                 \/ leaf = TargetExportName /\ e.Value = target
                 \/ /\ trait
                    /\ \E t \in Range(TraitMembers(cache.Trait).Types) :
                          /\ t.ExportName = leaf
                          /\ e.Value # NoType
                          /\ e.Value = DenotedType(t.Index, target, arguments)
            [] e.EntryType = "CONSTRAINT_EXPORT_FUNCTION" ->
                 /\ trait
                 /\ \E i \in 1..Len(cache.TraitFunctions) :
                       LET tf == ConstraintTraits[cache.Trait].Functions[i]
                           info == cache.TraitFunctions[i]
                           public == At(tt.PublicFunctions, e.Value.Index)
                       IN /\ tf.ExportName = leaf
                          /\ info.CurrentOverload < Len(info.Overloads)
                          /\ e.Value = [Type |-> target,
                                        Index |-> At(info.Overloads, info.CurrentOverload).Index]
                          /\ e.Value.Index < Len(tt.PublicFunctions)
                          /\ public.Name = tf.ElementName
                          /\ DenotedType(public.ReturnType, target, <<>>)
                                = DenotedType(tf.ReturnType, target, arguments)
            [] OTHER ->
                 /\ trait
                 /\ \E i \in 1..Len(cache.TraitFields) :
                       LET tf == TraitMembers(cache.Trait).Fields[i]
                       IN /\ tf.ExportName = leaf
                          /\ e.Value = cache.TraitFields[i].FieldIndex
                          /\ \E f \in Range(tt.PublicFields) :
                                f.Name = tf.ElementName /\ f.Id = e.Value

\* the RefList of the declaration an entry of the export list indexes
ExportRefList(g, entryType) ==
    CASE entryType = "CONSTRAINT_EXPORT_TYPE" -> g.Types
      [] entryType = "CONSTRAINT_EXPORT_FUNCTION" -> g.Functions
      [] OTHER -> g.Fields

\* the entry e of the export list is accounted for by a constraint that has
\* passed
ExportAccounted(e) ==
    LET g == solver.request.Declaration
        list == ExportRefList(g, e.EntryType)
        name == At(g.NamesList, At(list, e.Index).Index)
    IN /\ e.Index \in 0..(Len(list) - 1)
       /\ RefKind(At(list, e.Index).Type) = REF_CONSTRAINT
       /\ \E k \in 1..Len(solver.checked) :
             LET prefix == g.Constraints[k].ExportName \o <<"/">>
                 rest == SubSeq(name, Len(prefix) + 1, Len(name))
             IN /\ StartsWith(name, prefix)
                /\ \E p \in ExportPaths(solver.checked[k]) :
                      LET leaf == SubSeq(rest, Len(p[2]) + 1, Len(rest))
                      IN /\ StartsWith(rest, p[2])
                         /\ leaf # <<>>
                         /\ "/" \notin Range(leaf)
                         /\ ExportLeafMeaning(e, p[1], leaf)

\* C39: when CheckConstraintsImpl has returned, every entry of the export
\* list has the position of a CONSTRAINT-kind entry of the RefList of its kind
\* as Index, and the name of that entry starts with "<ExportName>/" of a
\* constraint that has passed; the rest of the name leads over the export
\* names of sub-constraints to a leaf, and the entry holds what the leaf
\* means: ".target" the target of the constraint, an exported type of the
\* trait the type it names, an exported function the overload of the target
\* that CurrentOverload selects (a public function of that name whose return
\* type is the one the trait asks for), an exported field the FieldIndex
\* bound in the target (the Id of the target's public field of that name).
\* A name that does not resolve so has no entry, and without an export list
\* nothing is recorded.
C39_ExportEntries ==
    solver.pc = "done" =>
        /\ \A j \in 1..Len(solver.exportList) : ExportAccounted(solver.exportList[j])
        /\ ~solver.request.WantsExports => solver.exportList = <<>>

\* a call has returned whose list holds a type, a function in an overload
\* other than the first, found below a sub-constraint, and a field whose
\* FieldIndex is not its position in the trait, while a CONSTRAINT-kind type
\* entry with the prefix of the passed constraint got no entry
C39_Witness ==
    /\ solver.pc = "done"
    /\ Len(solver.checked) > 0
    /\ \E e \in Range(solver.exportList) : e.EntryType = "CONSTRAINT_EXPORT_TYPE"
    /\ \E e \in Range(solver.exportList) :
          /\ e.EntryType = "CONSTRAINT_EXPORT_FUNCTION"
          /\ e.Value.Index > 0
          /\ FindSlash(Substr(At(solver.request.Declaration.NamesList,
                                 At(solver.request.Declaration.Functions, e.Index).Index), 2)) > 0
    /\ \E e \in Range(solver.exportList) :
          e.EntryType = "CONSTRAINT_EXPORT_FIELD" /\ e.Value = 1
    /\ \E i \in 1..Len(solver.request.Declaration.Types) :
          LET ref == solver.request.Declaration.Types[i]
          IN /\ RefKind(ref.Type) = REF_CONSTRAINT
             /\ StartsWith(At(solver.request.Declaration.NamesList, ref.Index), <<"c", "/">>)
             /\ \A e \in Range(solver.exportList) :
                   e.EntryType = "CONSTRAINT_EXPORT_TYPE" => e.Index # i - 1

-----------------------------------------------------------------------------
(* Requests that instantiate a template again with larger arguments *)

\* the type objects up to which the exploration follows the loop of a request
MaxTypes == 8

\* LoadTypeNoLock as far as the return of LoadTypeInternal, in a build without
\* asserts and with hooks that do not throw
BeginLoadTypeQuiet(args) ==
    /\ ~crashed
    /\ Bounded
    /\ threads[1].pc = "idle"
    /\ FindByArgs(types, loadedTypes, args) = Null
    /\ GoesOn(Call("GetType", args, "", 0, 0, Null, ""), QuietEnv,
              Run("LoadTypeInternal", <<ClearLoadingLists(Loader(QuietEnv)), args>>))
    /\ UNCHANGED pipelineFrame

\* the request is inside the loop of ProcessLoadingLists with an object in a
\* queue, and has made fewer than MaxTypes types
TurnPending ==
    /\ ~crashed
    /\ threads[1].pc = "load"
    /\ Len(loadingRefTypes) + Len(postLoadingTypes) + Len(loadingFunctions) > 0
    /\ nextTypeId <= MaxTypes

\* a turn of the loop of ProcessLoadingLists
BoundedLoadingStep == TurnPending /\ LoadingStep

InitGrow == assemblies = "Grow" /\ Start

NextGrow ==
    \/ \E args \in TypeRequests : BeginLoadTypeQuiet(args)
    \/ \E args \in FunctionRequests : BeginLoadFunction(args)
    \/ BoundedLoadingStep
    \/ FinishLoad

\* the loop of ProcessLoadingLists goes on while a queue holds an object, and
\* the request returns when it has ended
\* the thread that made the request runs on: a turn that stays possible is
\* made (a turn pops a queue or ends the request, so TurnPending is the
\* enabling condition of BoundedLoadingStep)
FairTurns == []<>(~TurnPending) \/ []<><<BoundedLoadingStep>>_vars

SpecGrow ==
    InitGrow /\ [][NextGrow]_vars /\ FairTurns /\ WF_vars(FinishLoad)

====
